---- MODULE Spec2Model ----
(***************************************************************************)
(* Verification model of the yolo-touchdesigner inference front end:       *)
(* the IoU identity tracker, the single-flight frame pumps, per-class      *)
(* non-max suppression, the head decoders' score gate and the ingest       *)
(* header parser.                                                          *)
(*                                                                         *)
(* Numbers.  The code computes IoU in double precision as                  *)
(* inter / (union + 1e-9).  Boxes here have small non-negative integer     *)
(* coordinates, so an IoU value is kept as the exact pair <<inter, union>> *)
(* and every comparison the code makes on it is decided exactly, the       *)
(* 1e-9 included (see ConfLess and BelowThr).                              *)
(***************************************************************************)
EXTENDS Integers, Sequences, FiniteSets, TLC

(***************************************************************************)
(* Bounds of the model.                                                    *)
(***************************************************************************)
MaxUpdates == 3      \* IoUTracker.update calls in one behaviour
MaxDets == 2         \* detections handed to one update call
MaxFed == 4          \* detections handed to the tracker in one behaviour
MaxTtl == 1          \* largest ttl a tracker is constructed with
MaxFrames == 3       \* frames accepted or captured in one behaviour
MaxLoops == 2        \* rafLoop chains started by onloadedmetadata
MaxDiscards == 1     \* messages ws.onmessage discards in one behaviour
MaxDetectFrames == 2 \* calls of runDetect in one behaviour
MaxNmsLen == 3       \* detections handed to one nmsPerClass call
MaxTopk == 2         \* largest topk handed to nmsPerClass or a decoder
MaxNmsTopk == 3      \* largest topk in the suppressor's own specification
MaxRows == 2         \* rows of a head output that are not all zero
MaxAnchors == 6      \* rows (anchors) of a head output other than the segmentation head's
MaxPayload == 2      \* payload bytes behind a frame header
MaxH == 13           \* largest frame height a box is normalized for
Precision == 5       \* bits of the significand of a number (53 in the program)

(***************************************************************************)
(* Program constants.                                                      *)
(***************************************************************************)
IouMatchNum == 1     \* iouMatch = 0.5 = IouMatchNum / IouMatchDen
IouMatchDen == 2
INPUT_W == 640       \* config.js
INPUT_H == 640
SegRows == 300       \* rows decodeYOLOSeg requires of the detection tensor
HeaderLen == 16      \* bytes of the frame header <BBBBHHII>

VARIABLES
    \* ---- IoUTracker (utils/tracker.js) and what is observed of it
    ttl,        \* IoUTracker.ttl
    nextId,     \* IoUTracker.nextId
    tracks,     \* IoUTracker.tracks: id -> [box, label, score, age, hits, miss]
    out,        \* the list the last update returned
    updates,    \* number of update calls so far
    fed,        \* number of detections handed to update so far
    touched,    \* ids matched or created by the last update
    created,    \* ids given to new tracks, in order of creation
    unseen,     \* id -> consecutive updates in which the id was neither matched nor created
    streak,     \* the current run of updates that each got the same single detection
    lastDets,   \* the detections handed to the last update
    lastPairs,  \* the pairs [conf, id, di] the last update built, in the order built
    lastMatches,     \* the <<id, di>> the last update matched
    \* ---- the frame pumps (pumpBinary, the older pump, rafLoop)
    mode,       \* which pump this pipeline instance runs: "binary", "legacy" or "webcam"
    streams,    \* the model sessions loaded: a subset of {"det", "pose", "seg"}
    latest,     \* latestBinaryJob / latest: 0 for null, else the accepted frame's number
    processing, \* binaryProcessing / processing / rafProcessing
    inflight,   \* frames whose inference was started and has not yet settled
    accepted,   \* frames accepted (binary) or captured (webcam) so far, numbered 1, 2, ...
    started,    \* <<job, newest>>: the job each processing start took and the newest frame then
    sent,       \* the messages handed to the transport, in order
    rafQueue,   \* rafLoop callbacks waiting in requestAnimationFrame
    loops,      \* times onloadedmetadata has started a rafLoop chain
    lastMsg,    \* the message of the last ws.onmessage call
    discards,   \* messages ws.onmessage has returned on without accepting
    inputBuf,   \* the frame whose pixels f32InputBuffer holds, 0 before the first write
    tracked,    \* the frames the trackers were updated with, in order
    calls,      \* calls of pumpBinary / pump so far
    stage,      \* frame in flight -> the run it awaits: "det", "pose" or "seg"
    settled,    \* one record per frame whose processing ended: how, and what runSeg returned
    slotBytes,  \* job.payload.length of the job in the slot, 0 when the slot is empty
    inputBytes, \* the number of pixel samples the last write of f32InputBuffer had to read
    \* ---- one call of nmsPerClass(dets, iouThr, topk)
    nmsIn,      \* dets
    nmsThr,     \* iouThr, as <<numerator, denominator>>
    nmsTopk,    \* topk
    nmsOut,     \* the list returned
    nmsDone,    \* whether the call has been made
    nmsAgain,   \* the list a second call, on nmsOut, returned
    nmsAgainDone,    \* whether the second call has been made
    \* ---- one call of a head decoder
    decOuts,    \* the session outputs, in outputNames order
    decThr,     \* the score threshold
    decTopk,    \* topk
    decIsObb,   \* isObb (read by decodeYOLO_or_OBB only)
    decHead,    \* the decoder that was called, "none" before the call
    decOut,     \* the detections the decoder returned (for decodeYOLOSeg: drew)
    decMask,    \* what decodeYOLOSeg returned: <<>> for null, else <<mask>>
    \* ---- one call of parseHeader(buf)
    hdrBuf,     \* the bytes of buf
    hdrOut,     \* what parseHeader returned
    hdrDone,    \* whether the call has been made
    \* ---- the detect sessions (initSessions, runDetect)
    detEnv,     \* what initSessions finds: configuration, model shapes, which steps fail
    detSession, \* detSession is not null
    IS_OBB,     \* IS_OBB
    IS_V26,     \* IS_V26
    device,     \* device is not null
    detNmsSession,   \* detNmsSession is not null
    gpuFetches,      \* gpuFetches is not null
    gpuFetchesReady, \* gpuFetchesReady
    detBooted,  \* initSessions has run
    detPaths,   \* for each call of runDetect, the path it took
    setupFailure,    \* "create" / "prebind" when that step of setting up the decoder session failed
    \* ---- one call of mapBoxYFlipNorm([x, y, w, h], H)
    mapBox,     \* <<x, y, w, h>>
    mapH,       \* H
    mapNorm,    \* the list returned, each number as [m, k] for m / 2^k
    mapDone     \* whether the call has been made

trackerVars == <<ttl, nextId, tracks, out, updates, fed, touched, created, unseen, streak,
                 lastDets, lastPairs, lastMatches>>
pumpVars == <<mode, streams, latest, processing, inflight, accepted, started, sent,
              rafQueue, loops, lastMsg, discards, inputBuf, tracked, calls, stage, settled,
              slotBytes, inputBytes>>
nmsVars == <<nmsIn, nmsThr, nmsTopk, nmsOut, nmsDone, nmsAgain, nmsAgainDone>>
decVars == <<decOuts, decThr, decTopk, decIsObb, decHead, decOut, decMask>>
hdrVars == <<hdrBuf, hdrOut, hdrDone>>
onnxVars == <<detEnv, detSession, IS_OBB, IS_V26, device, detNmsSession, gpuFetches,
              gpuFetchesReady, detBooted, detPaths, setupFailure>>
mathVars == <<mapBox, mapH, mapNorm, mapDone>>
vars == <<trackerVars, pumpVars, nmsVars, decVars, hdrVars, onnxVars, mathVars>>

(***************************************************************************)
(* utils/math.js: iou                                                      *)
(***************************************************************************)
Max(a, b) == IF a >= b THEN a ELSE b
Min(a, b) == IF a <= b THEN a ELSE b

\* <<inter, aw*ah + bw*bh - inter>>: the value returned is inter / (union + 1e-9)
iou(a, b) ==
    LET ax2 == a[1] + a[3]
        ay2 == a[2] + a[4]
        bx2 == b[1] + b[3]
        by2 == b[2] + b[4]
        ix == Max(a[1], b[1])
        iy == Max(a[2], b[2])
        ix2 == Min(ax2, bx2)
        iy2 == Min(ay2, by2)
        iw == Max(0, ix2 - ix)
        ih == Max(0, iy2 - iy)
        inter == iw * ih
    IN  <<inter, a[3] * a[4] + b[3] * b[4] - inter>>

\* c < d for c = i1/(u1+e), d = i2/(u2+e), e = 1e-9, integers i, u >= 0:
\* i1*(u2+e) < i2*(u1+e)  <=>  i1*u2 - i2*u1 < e*(i2 - i1), and |e*(i2-i1)| < 1.
ConfLess(c, d) ==
    LET D == c[1] * d[2] - d[1] * c[2]
    IN  D < 0 \/ (D = 0 /\ c[1] < d[1])

\* c < num/den for c = i/(u+e): den*i - num*u < num*e, and 0 < num*e < 1.
BelowThr(c, num, den) == den * c[1] - num * c[2] <= 0

\* c > num/den for c = i/(u+e): den*i - num*u > num*e.
AboveThr(c, num, den) == den * c[1] - num * c[2] > 0


(***************************************************************************)
(* utils/math.js: mapBoxYFlipNorm.  A JavaScript number is a binary        *)
(* floating-point number, and every +, -, * and / returns the exact result *)
(* rounded to the nearest number, ties to even.  The model keeps that      *)
(* arithmetic with a significand of Precision bits: a number is [m, k],    *)
(* standing for m / 2^k, with |m| < 2^Precision or m = 2^Precision.        *)
(***************************************************************************)
\* the largest k a number is stored with
MaxShift == Precision + 6

Abs(n) == IF n < 0 THEN -n ELSE n

\* [m, k] with the same value and the smallest k
RECURSIVE Norm(_, _)
Norm(m, k) == IF k > 0 /\ m % 2 = 0 THEN Norm(m \div 2, k - 1) ELSE [m |-> m, k |-> k]

\* the k at which n / den has Precision significant bits
ShiftOf(n, den) ==
    CHOOSE k \in 0..MaxShift :
        /\ (n * 2^k) \div den < 2^Precision
        /\ k = MaxShift \/ (n * 2^(k + 1)) \div den >= 2^Precision

\* num / den (den > 0) rounded to the nearest number, ties to even
Round(num, den) ==
    IF num = 0 THEN [m |-> 0, k |-> 0]
    ELSE LET n == Abs(num)
             k == ShiftOf(n, den)
             m0 == (n * 2^k) \div den
             rem == n * 2^k - m0 * den
             m == IF 2 * rem > den \/ (2 * rem = den /\ m0 % 2 = 1) THEN m0 + 1 ELSE m0
         IN  Norm(IF num < 0 THEN -m ELSE m, k)

\* an integer below 2^Precision as a number
Num(n) == [m |-> n, k |-> 0]

\* a / b, a + b, a - b
FDiv(a, b) == Round(a.m * 2^b.k, 2^a.k * b.m)
FAdd(a, b) == Round(a.m * 2^b.k + b.m * 2^a.k, 2^(a.k + b.k))
FSub(a, b) == Round(a.m * 2^b.k - b.m * 2^a.k, 2^(a.k + b.k))

\* Mutant of mapBoxYFlipNorm: y is not flipped.
mapBoxNormNoFlip(box, H) ==
    <<FDiv(Num(box[1]), Num(H)), FDiv(Num(box[2]), Num(H)),
      FDiv(Num(box[3]), Num(H)), FDiv(Num(box[4]), Num(H))>>

\* return [x / H, (H - (y + h)) / H, w / H, h / H];
mapBoxYFlipNorm(box, H) ==
    <<FDiv(Num(box[1]), Num(H)),
      FDiv(FSub(Num(H), FAdd(Num(box[2]), Num(box[4]))), Num(H)),
      FDiv(Num(box[3]), Num(H)), FDiv(Num(box[4]), Num(H))>>

\* Boxes handed to mapBoxYFlipNorm: boxes with whole pixel coordinates that
\* lie in a frame H high and H wide, as the decoders clamp them.
MapInputs ==
    { <<b, H>> \in ((0..MaxH) \X (0..MaxH) \X (0..MaxH) \X (0..MaxH)) \X (1..MaxH) :
        b[1] + b[3] <= H /\ b[2] + b[4] <= H }

\* the one call
MapBox ==
    /\ ~mapDone
    /\ mapDone' = TRUE
    /\ mapNorm' = mapBoxYFlipNorm(mapBox, mapH)
    /\ UNCHANGED <<mapBox, mapH>>

MathStart(box, H) ==
    /\ mapBox = box
    /\ mapH = H
    /\ mapNorm = <<>>
    /\ mapDone = FALSE

MathIdle == MathStart(<<0, 0, 1, 1>>, 1)

(***************************************************************************)
(* Detections handed to the tracker.  A detection is [box, label, score,   *)
(* keypoints] and its other keys (extras: a set of <<key, value>>, as the  *)
(* angle the oriented decoder attaches when it is finite),                 *)
(* box = <<x, y, w, h>>.  BoxB overlaps BoxA with IoU 2/3, BoxC overlaps   *)
(* BoxA with IoU exactly 4/8 (which the 1e-9 puts below 0.5) and BoxB with *)
(* IoU 3/4; BoxZ has no area, as decodeYOLOv26 yields for x2 = x1.         *)
(***************************************************************************)
BoxA == <<0, 0, 2, 2>>
BoxB == <<0, 0, 2, 3>>
BoxC == <<0, 0, 2, 4>>
BoxZ == <<4, 4, 0, 1>>

DetUniverse ==
    { [box |-> BoxA, label |-> 0, score |-> 9, keypoints |-> <<>>,
       extras |-> {<<"angle", 1>>}],
      [box |-> BoxA, label |-> 0, score |-> 5, keypoints |-> <<>>,
       extras |-> {<<"angle", 2>>}],
      [box |-> BoxB, label |-> 1, score |-> 8, keypoints |-> <<[x |-> 1, y |-> 1, score |-> 9]>>,
       extras |-> {}],
      [box |-> BoxC, label |-> 0, score |-> 7, keypoints |-> <<[x |-> 1, y |-> 3, score |-> 5]>>,
       extras |-> {}],
      [box |-> BoxZ, label |-> 0, score |-> 6, keypoints |-> <<>>, extras |-> {}] }

DetLists == UNION { [1..n -> DetUniverse] : n \in 0..MaxDets }

(***************************************************************************)
(* utils/tracker.js: class IoUTracker                                      *)
(***************************************************************************)
\* [...this.tracks.keys()]: a Map iterates in insertion order, and ids are
\* inserted in increasing order, so the keys come out ascending.
RECURSIVE SeqOfSet(_)
SeqOfSet(S) ==
    IF S = {} THEN <<>>
    ELSE LET m == CHOOSE x \in S : \A y \in S : x <= y
         IN  <<m>> \o SeqOfSet(S \ {m})

Range(s) == { s[i] : i \in DOMAIN s }

\* for (const id of ids) this.tracks.get(id).miss++
IncMiss(tr) == [id \in DOMAIN tr |-> [tr[id] EXCEPT !.miss = @ + 1]]

\* the pairs [conf, id, di], di outer loop, ids inner loop (di counts from 1 here)
Pairs(tr, dets) ==
    LET ids == SeqOfSet(DOMAIN tr)
        n == Len(ids)
    IN  [k \in 1..(Len(dets) * n) |->
            LET di == ((k - 1) \div n) + 1
                j == ((k - 1) % n) + 1
            IN  [conf |-> iou(tr[ids[j]].box, dets[di].box), id |-> ids[j], di |-> di]]

\* pairs.sort((a, b) => b[0] - a[0]): descending by conf, stable
RECURSIVE SortPairs(_)
SortPairs(ps) ==
    IF ps = <<>> THEN <<>>
    ELSE LET rest == SortPairs(SubSeq(ps, 1, Len(ps) - 1))
             x == ps[Len(ps)]
             k == Cardinality({ i \in 1..Len(rest) : ~ConfLess(rest[i].conf, x.conf) })
         IN  SubSeq(rest, 1, k) \o <<x>> \o SubSeq(rest, k + 1, Len(rest))

\* Mutant of StopsMatching: the loop never breaks.
StopsMatchingNever(conf) == FALSE

\* if (conf < this.iouMatch) break
StopsMatching(conf) == BelowThr(conf, IouMatchNum, IouMatchDen)

\* the greedy loop over the sorted pairs: the set of matched <<id, di>>
RECURSIVE Assign(_, _, _, _)
Assign(ps, i, takenTrack, takenDet) ==
    IF i > Len(ps) THEN {}
    ELSE IF StopsMatching(ps[i].conf) THEN {}
    ELSE IF ps[i].id \in takenTrack \/ ps[i].di \in takenDet
         THEN Assign(ps, i + 1, takenTrack, takenDet)
         ELSE {<<ps[i].id, ps[i].di>>}
              \cup Assign(ps, i + 1, takenTrack \cup {ps[i].id}, takenDet \cup {ps[i].di})

\* _copyExtras(dst, src), on the keys other than box, label, score and
\* keypoints: every key of src is written to dst, the other keys of dst stay
_copyExtras(dst, src) ==
    { p \in dst : \A q \in src : q[1] # p[1] } \cup src

\* Mutant of MatchTrack: hits is not counted.
MatchTrackNoHit(t, d) ==
    [t EXCEPT !.box = d.box, !.label = d.label, !.score = d.score,
              !.keypoints = d.keypoints, !.extras = _copyExtras(@, d.extras), !.miss = 0]

\* Mutant of MatchTrack: the stored box is kept.
MatchTrackKeepsBox(t, d) ==
    [t EXCEPT !.label = d.label, !.score = d.score, !.keypoints = d.keypoints,
              !.extras = _copyExtras(@, d.extras), !.hits = @ + 1, !.miss = 0]

\* the body of the match branch: the track takes the detection's fields
MatchTrack(t, d) ==
    [t EXCEPT !.box = d.box, !.label = d.label, !.score = d.score,
              !.keypoints = d.keypoints, !.extras = _copyExtras(@, d.extras),
              !.hits = @ + 1, !.miss = 0]

\* the object a new track starts as
NewTrack(d) ==
    [box |-> d.box, label |-> d.label, score |-> d.score, keypoints |-> d.keypoints,
     extras |-> _copyExtras({}, d.extras), age |-> 0, hits |-> 1, miss |-> 0]

\* Mutant of FreshId: every track of one update gets the same id.
FreshIdSame(nid, k) == nid

\* const id = this.nextId++, for the k-th unmatched detection of this update
FreshId(nid, k) == nid + (k - 1)

\* Mutant of NextIdAfter: the counter is not advanced.
NextIdStuck(nid, n) == nid

\* this.nextId after n tracks were created
NextIdAfter(nid, n) == nid + n

\* Mutant of AgeAndPrune: deletes at miss >= ttl.
AgeAndPruneEarly(tr, lim) ==
    LET keep == { id \in DOMAIN tr : ~(tr[id].miss >= lim) }
    IN  [id \in keep |-> [tr[id] EXCEPT !.age = @ + 1]]

\* t.age++; if (t.miss > this.ttl) this.tracks.delete(id)
AgeAndPrune(tr, lim) ==
    LET keep == { id \in DOMAIN tr : ~(tr[id].miss > lim) }
    IN  [id \in keep |-> [tr[id] EXCEPT !.age = @ + 1]]

\* the keys of a track object other than box, label, score and keypoints
OwnExtras(t) ==
    t.extras \cup {<<"age", t.age>>, <<"hits", t.hits>>, <<"miss", t.miss>>}

\* Mutant of Emit: the filter on miss is left out.
EmitAll(tr) ==
    LET ids == SeqOfSet(DOMAIN tr)
    IN  [k \in 1..Len(ids) |->
            [id |-> ids[k], box |-> tr[ids[k]].box, label |-> tr[ids[k]].label,
             score |-> tr[ids[k]].score, keypoints |-> tr[ids[k]].keypoints,
             extras |-> _copyExtras({}, OwnExtras(tr[ids[k]]))]]

\* [...this.tracks.entries()].filter(([_, t]) => t.miss === 0).map(...)
Emit(tr) ==
    LET ids == SeqOfSet({ id \in DOMAIN tr : tr[id].miss = 0 })
    IN  [k \in 1..Len(ids) |->
            [id |-> ids[k], box |-> tr[ids[k]].box, label |-> tr[ids[k]].label,
             score |-> tr[ids[k]].score, keypoints |-> tr[ids[k]].keypoints,
             extras |-> _copyExtras({}, OwnExtras(tr[ids[k]]))]]

\* What one update(dets) call does to the tracker and what it returns.
UpdateResult(tr0, nid, lim, dets) ==
    LET tr1 == IncMiss(tr0)
        m == Assign(SortPairs(Pairs(tr1, dets)), 1, {}, {})
        takenDet == { p[2] : p \in m }
        detOf(id) == CHOOSE di \in takenDet : <<id, di>> \in m
        tr2 == [id \in DOMAIN tr1 |->
                   IF \E p \in m : p[1] = id
                   THEN MatchTrack(tr1[id], dets[detOf(id)])
                   ELSE tr1[id]]
        fresh == SeqOfSet((1..Len(dets)) \ takenDet)
        newIds == [k \in 1..Len(fresh) |-> FreshId(nid, k)]
        posOf(id) == CHOOSE k \in 1..Len(fresh) :
                        newIds[k] = id /\ \A j \in 1..Len(fresh) : newIds[j] = id => j <= k
        tr3 == [id \in DOMAIN tr2 \cup Range(newIds) |->
                   IF id \in Range(newIds) THEN NewTrack(dets[fresh[posOf(id)]])
                   ELSE tr2[id]]
        tr4 == AgeAndPrune(tr3, lim)
    IN  [tracks |-> tr4,
         nextId |-> NextIdAfter(nid, Len(fresh)),
         out |-> Emit(tr4),
         matched |-> { p[1] : p \in m },
         newIds |-> newIds,
         pairs |-> Pairs(tr1, dets),
         matches |-> m]

NoStreak == [len |-> 0, det |-> [box |-> BoxZ, label |-> 0, score |-> 0], id |-> 0, hits0 |-> 0]

\* A detection whose box the tracker can match to itself (IoU of the box
\* with itself is not below iouMatch; a box without area has IoU 0).
Matchable(d) == ~StopsMatching(iou(d.box, d.box))

\* update(dets), with the observations the properties are stated on
Update(dets) ==
    /\ updates < MaxUpdates
    /\ fed + Len(dets) <= MaxFed
    /\ fed' = fed + Len(dets)
    /\ \E r \in {UpdateResult(tracks, nextId, ttl, dets)} :
       LET hit == r.matched \cup Range(r.newIds)
       IN  /\ tracks' = r.tracks
           /\ nextId' = r.nextId
           /\ out' = r.out
           /\ lastPairs' = r.pairs
           /\ lastMatches' = r.matches
           /\ touched' = hit
           /\ created' = created \o r.newIds
           /\ unseen' = [id \in DOMAIN unseen \cup Range(r.newIds) |->
                            IF id \in hit THEN 0 ELSE unseen[id] + 1]
           /\ streak' =
                IF Len(dets) = 1 /\ Matchable(dets[1])
                THEN IF streak.len > 0 /\ streak.det = dets[1]
                     THEN [streak EXCEPT !.len = @ + 1]
                     ELSE [len |-> 1, det |-> dets[1],
                           id |-> IF r.out = <<>> THEN 0 ELSE r.out[1].id,
                           hits0 |-> IF r.out = <<>> THEN 0
                                     ELSE r.tracks[r.out[1].id].hits]
                ELSE NoStreak
    /\ updates' = updates + 1
    /\ lastDets' = dets
    /\ UNCHANGED ttl

TrackerStart(lim) ==
    /\ ttl = lim
    /\ nextId = 1
    /\ tracks = <<>>
    /\ out = <<>>
    /\ updates = 0
    /\ fed = 0
    /\ touched = {}
    /\ created = <<>>
    /\ unseen = <<>>
    /\ streak = NoStreak
    /\ lastDets = <<>>
    /\ lastPairs = <<>>
    /\ lastMatches = {}

(***************************************************************************)
(* main.js: parseHeader.  A buffer is its sequence of bytes; the DataView  *)
(* getters read it 0-based.                                                *)
(***************************************************************************)
getUint8(buf, off) == buf[off + 1]

getUint16(buf, off, littleEndian) ==
    IF littleEndian THEN buf[off + 1] + 256 * buf[off + 2]
    ELSE 256 * buf[off + 1] + buf[off + 2]

getUint32(buf, off, littleEndian) ==
    IF littleEndian
    THEN buf[off + 1] + 256 * buf[off + 2] + 65536 * buf[off + 3] + 16777216 * buf[off + 4]
    ELSE 16777216 * buf[off + 1] + 65536 * buf[off + 2] + 256 * buf[off + 3] + buf[off + 4]

\* Mutant of RequiredFields: the layout byte is not looked at.
RequiredFieldsNoLayout(type, dtype, layout) == type = 10 /\ dtype = 1

\* the negation of: type !== 10 || dtype !== 1 || layout !== 1
RequiredFields(type, dtype, layout) == type = 10 /\ dtype = 1 /\ layout = 1

\* null is [null |-> TRUE]
parseHeader(buf) ==
    IF Len(buf) < HeaderLen THEN [null |-> TRUE]
    ELSE IF ~RequiredFields(getUint8(buf, 0), getUint8(buf, 1), getUint8(buf, 2))
         THEN [null |-> TRUE]
         ELSE [null |-> FALSE,
               H |-> getUint16(buf, 4, TRUE),
               W |-> getUint16(buf, 6, TRUE),
               seq |-> getUint32(buf, 8, TRUE),
               td |-> getUint32(buf, 12, TRUE),
               payload |-> SubSeq(buf, HeaderLen + 1, Len(buf))]

(***************************************************************************)
(* The frame pumps.  pumpBinary (main.js) and the older pump keep one      *)
(* pending job and a flag; rafLoop (modes/webcam.js) keeps a flag only.    *)
(* A pump is an async function: a call runs to its first await (the model  *)
(* run), other callbacks run while it waits, and its continuation, the     *)
(* finally block and a microtask the finally block queues all run before   *)
(* the next message or animation-frame callback.  So a call up to the      *)
(* await is one step, and the settling of the await up to the next await   *)
(* is one step.                                                            *)
(***************************************************************************)
Modes == {"binary", "legacy", "webcam"}

\* Mutant of PumpBusy: the flag is not looked at.
PumpBusyNever(flag) == FALSE

\* if (binaryProcessing) return;  /  if (processing) return;  /  if (rafProcessing) {...}
PumpBusy(flag) == flag

\* Mutant of SlotAfterArrival: a waiting job is not overwritten.
SlotKeepsOldest(slot, job) == IF slot # 0 THEN slot ELSE job

\* latestBinaryJob = job;  /  latest = job;
SlotAfterArrival(slot, job) == job

\* finally { ...; if (latestBinaryJob) queueMicrotask(pumpBinary); }  (pumpBinary only)
Requeues(m, slot) == m = "binary" /\ slot # 0

\* The model runs a frame awaits, in the order the code awaits them.
StageOrder == <<"det", "pose", "seg">>

\* if (detSession) ... await runDetect; if (poseSession) ... await runPose;
\* and, in runInferencePipeline only, if (segSession) ... await runSeg
ActiveStages(m, str) ==
    SelectSeq(StageOrder, LAMBDA s : s \in str /\ (s # "seg" \/ m = "webcam"))

\* whether a frame has a model run to await
sessions == ActiveStages(mode, streams) # <<>>

\* the active run awaited after run s, "done" after the last one
RECURSIVE StageAfterIn(_, _)
StageAfterIn(order, s) ==
    IF Len(order) < 2 THEN "done"
    ELSE IF Head(order) = s THEN order[2]
         ELSE StageAfterIn(Tail(order), s)

StageAfter(s) == StageAfterIn(ActiveStages(mode, streams), s)

\* the stage map once frame j has started / has settled
StageWith(sg, fl, j) ==
    [k \in fl \cup {j} |-> IF k = j THEN Head(ActiveStages(mode, streams)) ELSE sg[k]]
StageWithout(sg, fl, j) == [k \in fl \ {j} |-> sg[k]]

\* Mutant of PumpCall: the job taken stays in the slot.
PumpCallKeepsSlot(slot, flag, fl, st, newest, buf, sg) ==
    IF PumpBusy(flag)
    THEN [latest |-> slot, processing |-> flag, inflight |-> fl, started |-> st,
          inputBuf |-> buf, stage |-> sg]
    ELSE IF slot = 0 \/ ~sessions
         THEN [latest |-> 0, processing |-> FALSE, inflight |-> fl, started |-> st,
               inputBuf |-> buf, stage |-> sg]
         ELSE [latest |-> slot, processing |-> TRUE, inflight |-> fl \cup {slot},
               started |-> Append(st, <<slot, newest>>), inputBuf |-> slot,
               stage |-> StageWith(sg, fl, slot)]

\* One call of pumpBinary / pump, up to its first await, when the slot holds
\* `slot`, the flag is `flag`, `newest` is the last accepted frame and the
\* input buffer holds the pixels of frame `buf`.
PumpCall(slot, flag, fl, st, newest, buf, sg) ==
    IF PumpBusy(flag)
    THEN [latest |-> slot, processing |-> flag, inflight |-> fl, started |-> st,
          inputBuf |-> buf, stage |-> sg]
    ELSE IF slot = 0 \/ ~sessions
         \* const job = latest; latest = null; if (!job || no session) return; finally
         THEN [latest |-> 0, processing |-> FALSE, inflight |-> fl, started |-> st,
               inputBuf |-> buf, stage |-> sg]
         \* const input = toInputTensorFromU8CHW(job); ... await runDetect(input)
         ELSE [latest |-> 0, processing |-> TRUE, inflight |-> fl \cup {slot},
               started |-> Append(st, <<slot, newest>>), inputBuf |-> slot,
               stage |-> StageWith(sg, fl, slot)]

\* const NUM = 3 * INPUT_H * INPUT_W: the cells of f32InputBuffer
NUM == 3 * INPUT_H * INPUT_W

\* Messages the socket delivers: a text message, and binary messages whose
\* buffer is a frame header (with one payload byte) that is complete or cut
\* to 15 bytes, has the right or a wrong type byte, and declares 640 or
\* another height and width.  buf lists the first bytes of the buffer and
\* rest counts the bytes that follow them: a 640x640 frame is sent with the
\* 3*640*640 payload bytes the format asks for, with one byte less, or with
\* one byte more.
Size640 == <<128, 2>>
SizeOther == <<2, 128>>
FrameBuffer(type, h, w) == <<type, 1, 1, 0>> \o h \o w \o <<1, 0, 0, 0>> \o <<0, 0, 0, 0>> \o <<7>>
WsMessages ==
    { [binary |-> FALSE, buf |-> <<>>, rest |-> 0],
      [binary |-> TRUE, buf |-> FrameBuffer(10, Size640, Size640), rest |-> NUM - 1],
      [binary |-> TRUE, buf |-> FrameBuffer(10, Size640, Size640), rest |-> NUM - 2],
      [binary |-> TRUE, buf |-> FrameBuffer(10, Size640, Size640), rest |-> NUM],
      [binary |-> TRUE, buf |-> SubSeq(FrameBuffer(10, Size640, Size640), 1, 15), rest |-> 0],
      [binary |-> TRUE, buf |-> FrameBuffer(9, Size640, Size640), rest |-> NUM - 1],
      [binary |-> TRUE, buf |-> FrameBuffer(10, SizeOther, Size640), rest |-> NUM - 1],
      [binary |-> TRUE, buf |-> FrameBuffer(10, Size640, SizeOther), rest |-> NUM - 1] }

\* job.payload.length for the job parseHeader makes of the message:
\* new Uint8Array(buf, 16) views every byte after the header
PayloadLength(msg) == Len(parseHeader(msg.buf).payload) + msg.rest

\* the payload length of frame j, which is the arriving job (of length len)
\* or the job the slot held (of length kept); 0 for no job
BytesOf(j, job, len, kept) == IF j = 0 THEN 0 ELSE IF j = job THEN len ELSE kept

\* toInputTensorFromU8CHW / toInputTensorInPlace:
\* for (i = 0; i < NUM; i++) f32InputBuffer[i] = u8[i] * (1 / 255);
\* cells i >= u8.length are written with undefined * (1 / 255), which is NaN
NaNCells(len) == IF len < NUM THEN NUM - len ELSE 0

\* Mutant of VerdictOf: the declared height and width are not looked at.
VerdictIgnoresSize(msg) ==
    IF ~msg.binary THEN "not_binary"
    ELSE LET job == parseHeader(msg.buf)
         IN  IF job.null THEN "no_job" ELSE "accepted"

\* the return ws.onmessage leaves on
VerdictOf(msg) ==
    IF ~msg.binary THEN "not_binary"
    ELSE LET job == parseHeader(msg.buf)
         IN  IF job.null THEN "no_job"
             ELSE IF job.H # INPUT_H \/ job.W # INPUT_W THEN "wrong_size"
                  ELSE "accepted"

\* ws.onmessage returning on one of its three checks
Discard(msg) ==
    /\ discards < MaxDiscards
    /\ discards' = discards + 1
    /\ UNCHANGED <<mode, streams, latest, processing, inflight, accepted, started, sent,
                   rafQueue, loops, inputBuf, tracked, calls, stage, settled, slotBytes,
                   inputBytes>>

\* ws.onmessage with a frame that passes parseHeader and the 640x640 check:
\* latestBinaryJob = job; pumpBinary();
Arrive(msg) ==
    /\ accepted < MaxFrames
    /\ LET job == accepted + 1
           r == PumpCall(SlotAfterArrival(latest, job), processing, inflight, started, job,
                         inputBuf, stage)
       IN  /\ accepted' = job
           /\ latest' = r.latest
           /\ processing' = r.processing
           /\ inflight' = r.inflight
           /\ started' = r.started
           /\ inputBuf' = r.inputBuf
           /\ stage' = r.stage
           /\ slotBytes' = BytesOf(r.latest, job, PayloadLength(msg), slotBytes)
           /\ inputBytes' = IF r.inputBuf = inputBuf THEN inputBytes
                             ELSE BytesOf(r.inputBuf, job, PayloadLength(msg), slotBytes)
    /\ calls' = calls + 1
    /\ UNCHANGED <<mode, streams, sent, rafQueue, loops, discards, tracked, settled>>

\* ws.onmessage
OnMessage ==
    /\ mode \in {"binary", "legacy"}
    /\ \E msg \in WsMessages :
          /\ lastMsg' = msg
          /\ IF VerdictOf(msg) = "accepted" THEN Arrive(msg) ELSE Discard(msg)

\* dv.setUint32(offset, v, true): the four bytes written, lowest first
setUint32(v) == <<v % 256, (v \div 256) % 256, (v \div 65536) % 256, (v \div 16777216) % 256>>

\* new Uint8Array(data.buffer, data.byteOffset, data.byteLength): the bytes
\* of a Float32Array whose cells are given as the four bytes each occupies
RECURSIVE floatView(_)
floatView(data) ==
    IF data = <<>> THEN <<>> ELSE Head(data) \o floatView(Tail(data))

\* Mutant of SegBuffer: the header words are written high byte first.
SegBufferBigEndian(seg) ==
    <<0, 0, 0, seg.width>> \o <<0, 0, 0, seg.height>> \o floatView(seg.data)

\* buf = new Uint8Array(8 + data.byteLength); dv.setUint32(0, width, true);
\* dv.setUint32(4, height, true); buf.set(floatView, 8);
SegBuffer(seg) == setUint32(seg.width) \o setUint32(seg.height) \o floatView(seg.data)

\* if (segResult) { ...; sender(buf.buffer); }   res is <<>> for null
SegMessages(j, res) ==
    IF res = <<>> THEN <<>>
    ELSE <<[of |-> j, json |-> FALSE, type |-> "", fields |-> {},
            bytes |-> SegBuffer(res[1])]>>

\* the keys every prediction message carries
CommonFields(m) ==
    IF m = "legacy" THEN {"type", "frame", "seq", "width", "height"}
    ELSE {"type", "frame", "seq", "videoFrame", "width", "height"}

\* Mutant of JsonType: a pipeline with both streams sends the detection message.
JsonTypeDetFirst(str) ==
    IF "det" \in str THEN "yolo"
    ELSE IF "pose" \in str THEN "yolo_pose"
         ELSE ""

\* if (detSession && poseSession) ... else if (detSession) ... else if (poseSession) ...
JsonType(str) ==
    IF "det" \in str /\ "pose" \in str THEN "yolo_combined"
    ELSE IF "det" \in str THEN "yolo"
         ELSE IF "pose" \in str THEN "yolo_pose"
              ELSE ""

\* the keys of the message of type t: packAndSendPreds and the older pump
\* write them out; runInferencePipeline spreads the record of
\* formatPredictions after deleting the stream that is off
JsonFields(m, t) ==
    CommonFields(m) \cup
    (IF t = "yolo_combined" THEN {"yolo", "yolo_pose"}
     ELSE IF m # "webcam" THEN {"predictions"}
          ELSE IF t = "yolo" THEN {"yolo", "predictions"}
               ELSE {"yolo_pose", "predictions"})

\* the prediction message of frame j, if a stream is on
JsonMessages(m, j, str) ==
    IF JsonType(str) = "" THEN <<>>
    ELSE <<[of |-> j, json |-> TRUE, type |-> JsonType(str),
            fields |-> JsonFields(m, JsonType(str)), bytes |-> <<>>]>>

\* Mutant of Outgoing: the messages are built although the run raised.
OutgoingAnyway(m, j, str, res, open, ok) ==
    IF ~open THEN <<>>
    ELSE (IF m = "webcam" THEN SegMessages(j, res) ELSE <<>>) \o JsonMessages(m, j, str)

\* What a frame hands to the transport: nothing when a run raised (the
\* sends come after every await) or when the socket is not open / no sender
\* is set; else the mask buffer (runInferencePipeline only) and then the
\* prediction message.
Outgoing(m, j, str, res, open, ok) ==
    IF ~ok \/ ~open THEN <<>>
    ELSE (IF m = "webcam" THEN SegMessages(j, res) ELSE <<>>) \o JsonMessages(m, j, str)

\* Results runSeg can return: null, or a mask record whose data has
\* width * height cells (decodeYOLOSeg: new Float32Array(MW * MH)), each
\* cell given as the four bytes it occupies.
CellZero == <<0, 0, 0, 0>>
CellOne == <<0, 0, 128, 63>>
SegResults ==
    { <<>>,
      <<[width |-> 1, height |-> 1, data |-> <<CellOne>>]>>,
      <<[width |-> 2, height |-> 1, data |-> <<CellZero, CellOne>>]>> }

\* what runSeg returned for a frame that got through its runs
SegResultsOf(m, str, ok) ==
    IF ok /\ m = "webcam" /\ "seg" \in str THEN SegResults ELSE {<<>>}

\* trackerDet.update / trackerPose.update are called when their stream is on
Tracks(str) == str \cap {"det", "pose"} # {}

\* Mutant of FlagAfterRun: a raised run leaves the flag set.
FlagStuckOnFailure(ok) == ~ok

\* finally { binaryProcessing = false; }  /  processing = false  /  rafProcessing = false
FlagAfterRun(ok) == FALSE

\* the awaited run of frame j returns and the next active run is awaited
Advance(j) ==
    /\ j \in inflight
    /\ StageAfter(stage[j]) # "done"
    /\ stage' = [stage EXCEPT ![j] = StageAfter(stage[j])]
    /\ UNCHANGED <<mode, streams, latest, processing, inflight, accepted, started, sent,
                   rafQueue, loops, lastMsg, discards, inputBuf, tracked, calls, settled,
                   slotBytes, inputBytes>>

\* The rest of a pump call once the awaited run of frame j has returned and
\* was the last one (ok) or has raised (~ok): track, send, then the finally
\* block.
PumpSettle(j, ok) ==
    /\ mode \in {"binary", "legacy"}
    /\ j \in inflight
    /\ ok => StageAfter(stage[j]) = "done"
    /\ \E open \in BOOLEAN :
          /\ sent' = sent \o Outgoing(mode, j, streams, <<>>, open, ok)
          /\ settled' = Append(settled, [frame |-> j, ok |-> ok, at |-> stage[j],
                                         res |-> <<>>, open |-> open])
    /\ tracked' = IF ok THEN Append(tracked, j) ELSE tracked
    /\ LET r == IF Requeues(mode, latest)
                THEN PumpCall(latest, FlagAfterRun(ok), inflight \ {j}, started, accepted,
                              inputBuf, StageWithout(stage, inflight, j))
                ELSE [latest |-> latest, processing |-> FlagAfterRun(ok),
                      inflight |-> inflight \ {j}, started |-> started,
                      inputBuf |-> inputBuf, stage |-> StageWithout(stage, inflight, j)]
       IN  /\ latest' = r.latest
           /\ processing' = r.processing
           /\ inflight' = r.inflight
           /\ started' = r.started
           /\ inputBuf' = r.inputBuf
           /\ stage' = r.stage
           /\ slotBytes' = BytesOf(r.latest, 0, 0, slotBytes)
           /\ inputBytes' = IF r.inputBuf = inputBuf THEN inputBytes
                             ELSE BytesOf(r.inputBuf, 0, 0, slotBytes)
    /\ calls' = IF Requeues(mode, latest) THEN calls + 1 ELSE calls
    /\ UNCHANGED <<mode, streams, accepted, rafQueue, loops, lastMsg, discards>>

\* the awaited run returns
Complete ==
    /\ mode \in {"binary", "legacy"}
    /\ \E j \in inflight :
          IF StageAfter(stage[j]) # "done" THEN Advance(j) ELSE PumpSettle(j, TRUE)

\* the awaited run throws: catch logs, nothing is sent
Fail == \E j \in inflight : PumpSettle(j, FALSE)

\* video.onloadedmetadata: requestAnimationFrame(rafLoop)
LoadedMetadata ==
    /\ mode = "webcam"
    /\ loops < MaxLoops
    /\ loops' = loops + 1
    /\ rafQueue' = rafQueue + 1
    /\ UNCHANGED <<mode, streams, latest, processing, inflight, accepted, started, sent,
                   lastMsg, discards, inputBuf, tracked, calls, stage, settled, slotBytes,
                   inputBytes>>

\* one rafLoop callback, up to its await
RafTick ==
    /\ mode = "webcam"
    /\ rafQueue > 0
    /\ accepted < MaxFrames
    /\ IF PumpBusy(processing)
       \* requestAnimationFrame(rafLoop); return;
       THEN UNCHANGED <<processing, inflight, accepted, started, rafQueue, inputBuf, stage,
                        inputBytes>>
       \* drawPaddedSquareFromVideo, toInputTensorFromImageData: the image
       \* read from the INPUT_W x INPUT_H canvas has every sample
       ELSE LET job == accepted + 1
            IN  /\ accepted' = job
                /\ inputBuf' = job
                /\ inputBytes' = NUM
                /\ IF sessions
                   THEN /\ processing' = TRUE
                        /\ inflight' = inflight \cup {job}
                        /\ started' = Append(started, <<job, job>>)
                        /\ rafQueue' = rafQueue - 1
                        /\ stage' = StageWith(stage, inflight, job)
                   \* no session: nothing is awaited on, finally requeues at once
                   ELSE UNCHANGED <<processing, inflight, started, rafQueue, stage>>
    /\ UNCHANGED <<mode, streams, latest, sent, loops, lastMsg, discards, tracked, calls,
                   settled, slotBytes>>

\* the rest of a rafLoop call once the awaited run of frame j has returned
\* and was the last one (ok) or has raised (~ok)
RafSettle(j, ok) ==
    /\ mode = "webcam"
    /\ j \in inflight
    /\ ok => StageAfter(stage[j]) = "done"
    /\ \E open \in BOOLEAN : \E res \in SegResultsOf(mode, streams, ok) :
          /\ sent' = sent \o Outgoing(mode, j, streams, res, open, ok)
          /\ settled' = Append(settled, [frame |-> j, ok |-> ok, at |-> stage[j],
                                         res |-> res, open |-> open])
    /\ tracked' = IF ok /\ Tracks(streams) THEN Append(tracked, j) ELSE tracked
    /\ inflight' = inflight \ {j}
    /\ stage' = StageWithout(stage, inflight, j)
    /\ processing' = FlagAfterRun(ok)
    /\ rafQueue' = rafQueue + 1
    /\ UNCHANGED <<mode, streams, latest, accepted, started, loops, lastMsg, discards,
                   inputBuf, calls, slotBytes, inputBytes>>

RafComplete ==
    /\ mode = "webcam"
    /\ \E j \in inflight :
          IF StageAfter(stage[j]) # "done" THEN Advance(j) ELSE RafSettle(j, TRUE)

RafFail == \E j \in inflight : RafSettle(j, FALSE)

\* The pipelines a page can run: any of the three model sessions may be
\* loaded; only runInferencePipeline (the webcam loop) knows segmentation.
StreamSets(m) ==
    IF m = "webcam" THEN SUBSET {"det", "pose", "seg"} ELSE SUBSET {"det", "pose"}

PumpStart(m, s) ==
    /\ mode = m
    /\ streams = s
    /\ latest = 0
    /\ processing = FALSE
    /\ inflight = {}
    /\ accepted = 0
    /\ started = <<>>
    /\ sent = <<>>
    /\ rafQueue = 0
    /\ loops = 0
    /\ lastMsg = [binary |-> FALSE, buf |-> <<>>, rest |-> 0]
    /\ discards = 0
    /\ inputBuf = 0
    /\ tracked = <<>>
    /\ calls = 0
    /\ stage = <<>>
    /\ settled = <<>>
    /\ slotBytes = 0
    /\ inputBytes = 0

(***************************************************************************)
(* inference/postprocess.js: nmsPerClass                                   *)
(***************************************************************************)
\* the labels in the order the Map byClass first sees them
RECURSIVE LabelOrder(_)
LabelOrder(dets) ==
    IF dets = <<>> THEN <<>>
    ELSE LET front == LabelOrder(SubSeq(dets, 1, Len(dets) - 1))
             l == dets[Len(dets)].label
         IN  IF l \in Range(front) THEN front ELSE Append(front, l)

\* byClass.get(label): the detections of one label, in input order
ClassGroup(dets, l) == SelectSeq(dets, LAMBDA d : d.label = l)

\* arr.sort((a, b) => b.score - a.score): descending by score, stable
RECURSIVE SortByScore(_)
SortByScore(ds) ==
    IF ds = <<>> THEN <<>>
    ELSE LET rest == SortByScore(SubSeq(ds, 1, Len(ds) - 1))
             x == ds[Len(ds)]
             k == Cardinality({ i \in 1..Len(rest) : rest[i].score >= x.score })
         IN  SubSeq(rest, 1, k) \o <<x>> \o SubSeq(rest, k + 1, Len(rest))

\* Mutant of Suppresses: nothing is suppressed.
SuppressesNothing(a, k, thr) == FALSE

\* if (iou(a.box, k.box) > iouThr) { ok = false; break; }
Suppresses(a, k, thr) == AboveThr(iou(a.box, k.box), thr[1], thr[2])

\* the loop over one sorted class: keep a when no kept k suppresses it,
\* and leave the loop once keep.length >= topk
RECURSIVE KeepLoop(_, _, _, _, _)
KeepLoop(arr, i, keep, thr, topk) ==
    IF i > Len(arr) THEN keep
    ELSE IF \E j \in DOMAIN keep : Suppresses(arr[i], keep[j], thr)
         THEN KeepLoop(arr, i + 1, keep, thr, topk)
         ELSE IF Len(keep) + 1 >= topk
              THEN Append(keep, arr[i])
              ELSE KeepLoop(arr, i + 1, Append(keep, arr[i]), thr, topk)

\* keepAll.push(...keep) over byClass.values()
RECURSIVE KeepAll(_, _, _, _)
KeepAll(dets, labels, thr, topk) ==
    IF labels = <<>> THEN <<>>
    ELSE KeepLoop(SortByScore(ClassGroup(dets, Head(labels))), 1, <<>>, thr, topk)
         \o KeepAll(dets, Tail(labels), thr, topk)

\* Mutant of Truncate: the end of the list is kept.
TruncateKeepsEnd(list, topk) ==
    IF Len(list) > topk THEN SubSeq(list, Len(list) - topk + 1, Len(list)) ELSE list

\* if (list.length > topk) list.length = topk
Truncate(list, topk) == IF Len(list) > topk THEN SubSeq(list, 1, topk) ELSE list

nmsPerClass(dets, thr, topk) ==
    Truncate(SortByScore(KeepAll(dets, LabelOrder(dets), thr, topk)), topk)

\* Inputs of the suppressor: boxes as for the tracker, two labels, scores
\* with ties.  The thresholds are the default 0.45 and 2/3, which is exactly
\* the IoU of BoxA and BoxB before the 1e-9.
NmsUniverse ==
    { [box |-> BoxA, label |-> 0, score |-> 2],
      [box |-> BoxB, label |-> 0, score |-> 2],
      [box |-> BoxB, label |-> 0, score |-> 1],
      [box |-> BoxC, label |-> 0, score |-> 3],
      [box |-> BoxA, label |-> 1, score |-> 1],
      [box |-> BoxZ, label |-> 1, score |-> 2] }

NmsLists == UNION { [1..n -> NmsUniverse] : n \in 0..MaxNmsLen }

NmsThresholds == { <<9, 20>>, <<2, 3>> }

RunNms ==
    /\ ~nmsDone
    /\ nmsOut' = nmsPerClass(nmsIn, nmsThr, nmsTopk)
    /\ nmsDone' = TRUE
    /\ UNCHANGED <<nmsIn, nmsThr, nmsTopk, nmsAgain, nmsAgainDone>>

\* nmsPerClass called on the list it returned, with the same iouThr and topk
RunNmsAgain ==
    /\ nmsDone
    /\ ~nmsAgainDone
    /\ nmsAgain' = nmsPerClass(nmsOut, nmsThr, nmsTopk)
    /\ nmsAgainDone' = TRUE
    /\ UNCHANGED <<nmsIn, nmsThr, nmsTopk, nmsOut, nmsDone>>

NmsStart(dets, thr, topk) ==
    /\ nmsIn = dets
    /\ nmsThr = thr
    /\ nmsTopk = topk
    /\ nmsOut = <<>>
    /\ nmsDone = FALSE
    /\ nmsAgain = <<>>
    /\ nmsAgainDone = FALSE

NmsIdle == NmsStart(<<>>, <<9, 20>>, 1)

(***************************************************************************)
(* inference/postprocess.js: the head decoders.  A tensor is               *)
(* [dims, data] with data the flat array; At reads it 0-based as the code  *)
(* does.  Tensor values are small integers here (a Float32Array holds them *)
(* exactly), and box sizes are even, so w / 2 is exact.                    *)
(***************************************************************************)
At(data, k) == data[k + 1]

\* const get = channelsFirst ? (c, i) => d[c * num + i] : (c, i) => d[i * dim + c]
Get(d, dim, num, channelsFirst, c, i) ==
    IF channelsFirst THEN At(d, c * num + i) ELSE At(d, i * dim + c)

\* the loop over the class channels of anchor i, from channel c on:
\* <<bestC, bestS>>
RECURSIVE BestClass(_, _, _, _, _, _, _, _, _)
BestClass(d, dim, num, cf, i, obj, clsStart, c, best) ==
    IF c >= dim THEN best
    ELSE LET s == Get(d, dim, num, cf, c, i) * obj
         IN  BestClass(d, dim, num, cf, i, obj, clsStart, c + 1,
                       IF s > best[2] THEN <<c - clsStart, s>> ELSE best)

\* decodeYOLO_or_OBB: if (bestS < thr) continue
GenericSkips(bestS, thr) == bestS < thr

\* decodeYOLOPose: if (score <= score_threshold) continue
PoseSkips(score, thr) == score <= thr

\* decodeYOLOv26: if (score < score_threshold) continue
V26Skips(score, thr) == score < thr

\* decodeYOLOv26Pose: if (score < score_threshold) continue
V26PoseSkips(score, thr) == score < thr

\* decodeYOLOSeg: if (score > scoreThr) { dets.push(...) }
SegTakes(score, thr) == score > thr

\* "Build AABB" and "Clamp" of decodeYOLO_or_OBB
GenericBox(cx, cy, w, h) ==
    LET center == w > 0 /\ h > 0 /\ w <= INPUT_W * 2 /\ h <= INPUT_H * 2
        bx0 == IF center THEN cx - w \div 2 ELSE cx
        by0 == IF center THEN cy - h \div 2 ELSE cy
        bw0 == IF center THEN w ELSE w - cx
        bh0 == IF center THEN h ELSE h - cy
        bx == Max(0, Min(INPUT_W - 1, bx0))
        by == Max(0, Min(INPUT_H - 1, by0))
    IN  <<bx, by, Max(1, Min(INPUT_W - bx, bw0)), Max(1, Min(INPUT_H - by, bh0))>>

\* obj and the "Best class" loop of anchor i: <<bestC, bestS>>
BestOf(d, dim, num, cf, isObb, i) ==
    LET objIdx == IF isObb THEN 5 ELSE -1
        clsStart == IF isObb THEN 6 ELSE 4
        obj == IF objIdx >= 0 /\ objIdx < dim THEN Get(d, dim, num, cf, objIdx, i) ELSE 1
    IN  BestClass(d, dim, num, cf, i, obj, clsStart, clsStart, <<-1, -1>>)

\* the detection decodeYOLO_or_OBB pushes for anchor i
GenericDet(d, dim, num, cf, isObb, i) ==
    LET angleIdx == IF isObb THEN 4 ELSE -1
        best == BestOf(d, dim, num, cf, isObb, i)
        box == GenericBox(Get(d, dim, num, cf, 0, i), Get(d, dim, num, cf, 1, i),
                          Get(d, dim, num, cf, 2, i), Get(d, dim, num, cf, 3, i))
    IN  IF angleIdx >= 0 /\ angleIdx < dim
        THEN [box |-> box, label |-> best[1], score |-> best[2],
              angle |-> Get(d, dim, num, cf, angleIdx, i)]
        ELSE [box |-> box, label |-> best[1], score |-> best[2]]

\* the loop over the anchors of decodeYOLO_or_OBB: the anchors it does not
\* skip, in order, and what it pushes for them
GenericRows(d, dim, num, cf, thr, isObb) ==
    LET kept == SelectSeq([i \in 1..num |-> i - 1],
                          LAMBDA i : ~GenericSkips(BestOf(d, dim, num, cf, isObb, i)[2], thr))
    IN  [k \in 1..Len(kept) |-> GenericDet(d, dim, num, cf, isObb, kept[k])]

decodeYOLO_or_OBB(tensor, thr, topk, isObb) ==
    IF Len(tensor.dims) # 3 THEN <<>>
    ELSE LET C0 == tensor.dims[2]
             N0 == tensor.dims[3]
             cf == C0 < N0
             dim == IF cf THEN C0 ELSE N0
             num == IF cf THEN N0 ELSE C0
         IN  Truncate(SortByScore(GenericRows(tensor.data, dim, num, cf, thr, isObb)), topk)

\* const looksPose = (c) => c > 5 && (c - 5) % 3 === 0
looksPose(c) == c > 5 /\ (c - 5) % 3 = 0

\* the detection decodeYOLOPose pushes for anchor i
PoseDet(d, C, N, cn, i) ==
    LET w == Get(d, C, N, cn, 2, i)
        h == Get(d, C, N, cn, 3, i)
        K == (C - 5) \div 3
    IN  [box |-> <<Get(d, C, N, cn, 0, i) - w \div 2, Get(d, C, N, cn, 1, i) - h \div 2, w, h>>,
         label |-> 0,
         score |-> Get(d, C, N, cn, 4, i),
         keypoints |-> [kp \in 1..K |->
                          [x |-> Get(d, C, N, cn, 5 + (kp - 1) * 3, i),
                           y |-> Get(d, C, N, cn, 5 + (kp - 1) * 3 + 1, i),
                           score |-> Get(d, C, N, cn, 5 + (kp - 1) * 3 + 2, i)]]]

\* the loop over the anchors of decodeYOLOPose
PoseRows(d, C, N, cn, thr) ==
    LET kept == SelectSeq([i \in 1..N |-> i - 1],
                          LAMBDA i : ~PoseSkips(Get(d, C, N, cn, 4, i), thr))
    IN  [k \in 1..Len(kept) |-> PoseDet(d, C, N, cn, kept[k])]

decodeYOLOPose(raw_tensor, score_threshold, topk) ==
    IF Len(raw_tensor.dims) # 3 THEN <<>>
    ELSE LET cn == looksPose(raw_tensor.dims[2])
             C == IF cn THEN raw_tensor.dims[2] ELSE raw_tensor.dims[3]
             N == IF cn THEN raw_tensor.dims[3] ELSE raw_tensor.dims[2]
         IN  IF ~looksPose(C) THEN <<>>
             ELSE Truncate(SortByScore(PoseRows(raw_tensor.data, C, N, cn, score_threshold)),
                           topk)

\* the detection decodeYOLOv26 pushes for the row at off
V26Det(data, off) ==
    [box |-> <<At(data, off), At(data, off + 1),
               At(data, off + 2) - At(data, off), At(data, off + 3) - At(data, off + 1)>>,
     label |-> At(data, off + 5),
     score |-> At(data, off + 4)]

\* the loop over the rows of decodeYOLOv26
V26Rows(data, N, thr) ==
    LET kept == SelectSeq([i \in 1..N |-> i - 1], LAMBDA i : ~V26Skips(At(data, i * 6 + 4), thr))
    IN  [k \in 1..Len(kept) |-> V26Det(data, kept[k] * 6)]

decodeYOLOv26(tensor, score_threshold, topk) ==
    IF Len(tensor.dims) # 3 \/ tensor.dims[3] # 6 THEN <<>>
    ELSE Truncate(SortByScore(V26Rows(tensor.data, tensor.dims[2], score_threshold)), topk)

\* the detection decodeYOLOv26Pose pushes for the row at off
V26PoseDet(data, C, off) ==
    LET numKpt == (C - 6) \div 3
    IN  [box |-> <<At(data, off), At(data, off + 1),
                   At(data, off + 2) - At(data, off), At(data, off + 3) - At(data, off + 1)>>,
         label |-> At(data, off + 5),
         score |-> At(data, off + 4),
         keypoints |-> [k \in 1..Max(numKpt, 0) |->
                          [x |-> At(data, off + 6 + (k - 1) * 3),
                           y |-> At(data, off + 6 + (k - 1) * 3 + 1),
                           score |-> At(data, off + 6 + (k - 1) * 3 + 2)]]]

\* the loop over the rows of decodeYOLOv26Pose
V26PoseRows(data, N, C, thr) ==
    LET kept == SelectSeq([i \in 1..N |-> i - 1],
                          LAMBDA i : ~V26PoseSkips(At(data, i * C + 4), thr))
    IN  [k \in 1..Len(kept) |-> V26PoseDet(data, C, kept[k] * C)]

decodeYOLOv26Pose(tensor, score_threshold, topk) ==
    IF Len(tensor.dims) # 3 THEN <<>>
    ELSE Truncate(SortByScore(V26PoseRows(tensor.data, tensor.dims[2], tensor.dims[3],
                                          score_threshold)), topk)

\* the loop over outputNames of decodeYOLOSeg: the index in outs of the last
\* tensor of rank r, 0 when there is none (detT or protoT stays null)
LastOfRank(outs, r) ==
    LET S == { k \in 1..Len(outs) : Len(outs[k].dims) = r }
    IN  IF S = {} THEN 0 ELSE CHOOSE k \in S : \A j \in S : j <= k

\* the detection decodeYOLOSeg pushes for the row at off
SegDet(dData, MaskC, off) ==
    [box |-> <<At(dData, off), At(dData, off + 1), At(dData, off + 2), At(dData, off + 3)>>,
     label |-> At(dData, off + 5),
     score |-> At(dData, off + 4),
     coeffs |-> [c \in 1..MaskC |-> At(dData, off + 6 + c - 1)]]

\* the loop over the 300 rows of decodeYOLOSeg
SegRowsTaken(dData, stride, MaskC, thr) ==
    LET kept == SelectSeq([i \in 1..SegRows |-> i - 1],
                          LAMBDA i : SegTakes(At(dData, i * stride + 4), thr))
    IN  [k \in 1..Len(kept) |-> SegDet(dData, MaskC, kept[k] * stride)]

\* Mutant of SegAccepts: the width of the rows is not looked at.
SegAcceptsAnyWidth(outs) ==
    LET d == LastOfRank(outs, 3)
        p == LastOfRank(outs, 4)
    IN  /\ d # 0
        /\ p # 0
        /\ outs[d].dims[2] = SegRows

\* whether decodeYOLOSeg gets past its two "return null"
SegAccepts(outs) ==
    LET d == LastOfRank(outs, 3)
        p == LastOfRank(outs, 4)
    IN  /\ d # 0
        /\ p # 0
        /\ outs[d].dims[2] = SegRows
        /\ outs[d].dims[3] >= 6 + outs[p].dims[2]

\* 0.45, the IoU threshold decodeYOLOSeg hands to nmsPerClass
SegIouThr == <<9, 20>>

\* the instances decodeYOLOSeg draws: the rows above the threshold, then
\* dets = nmsPerClass(dets, 0.45, topk)
SegInstances(outs, scoreThr, topk) ==
    LET detT == outs[LastOfRank(outs, 3)]
        dets == SegRowsTaken(detT.data, detT.dims[3], outs[LastOfRank(outs, 4)].dims[2],
                             scoreThr)
    IN  IF dets = <<>> THEN <<>> ELSE nmsPerClass(dets, SegIouThr, topk)

\* 1000 / (1 + exp(-sum)), rounded, for the sums the model's tensors give
Sigmoid(sum) ==
    CASE sum = -2 -> 119 [] sum = -1 -> 269 [] sum = 0 -> 500 [] sum = 1 -> 731 [] sum = 2 -> 881

\* sum += coeffs[c] * protoData[c * MH_MW + i], over c
RECURSIVE MaskSum(_, _, _, _, _)
MaskSum(coeffs, protoData, MH_MW, i, c) ==
    IF c >= Len(coeffs) THEN 0
    ELSE coeffs[c + 1] * At(protoData, c * MH_MW + i) + MaskSum(coeffs, protoData, MH_MW, i, c + 1)

\* Math.floor(a / b) and Math.ceil(a / b) for b > 0
FloorDiv(a, b) == a \div b
CeilDiv(a, b) == -((-a) \div b)

\* whether pixel (x, y) lies in the mask rectangle of box: box / scale with
\* scaleX = INPUT_W / MW, scaleY = INPUT_H / MH
InMaskRect(box, x, y, MW, MH) ==
    /\ x >= Max(0, FloorDiv(box[1] * MW, INPUT_W))
    /\ x < Min(MW, CeilDiv(box[3] * MW, INPUT_W))
    /\ y >= Max(0, FloorDiv(box[2] * MH, INPUT_H))
    /\ y < Min(MH, CeilDiv(box[4] * MH, INPUT_H))

\* One pixel of outMap, in units of 1e-5, after instances k.. have been drawn.
\* alpha is in thousandths: clsID + 1.0 + alpha * 0.99 is
\* (clsID + 1) * 100000 + alpha * 99, currentVal - Math.floor(currentVal) is
\* val % 100000, and alpha * 0.999 > currentAlpha is alpha * 999 > 10 * (val % 100000).
RECURSIVE PixelAfter(_, _, _, _, _, _, _, _)
PixelAfter(val, dets, k, protoData, x, y, MW, MH) ==
    IF k > Len(dets) THEN val
    ELSE LET alpha == Sigmoid(MaskSum(dets[k].coeffs, protoData, MH * MW, y * MW + x, 0))
             drawn == IF InMaskRect(dets[k].box, x, y, MW, MH) /\ alpha * 999 > 10 * (val % 100000)
                      THEN (dets[k].label + 1) * 100000 + alpha * 99
                      ELSE val
         IN  PixelAfter(drawn, dets, k + 1, protoData, x, y, MW, MH)

\* decodeYOLOSeg: <<>> for null, else <<[width, height, data]>>
decodeYOLOSeg(outs, scoreThr, topk) ==
    IF ~SegAccepts(outs) THEN <<>>
    ELSE LET protoT == outs[LastOfRank(outs, 4)]
             MH == protoT.dims[3]
             MW == protoT.dims[4]
             dets == SegInstances(outs, scoreThr, topk)
         IN  <<[width |-> MW, height |-> MH,
                data |-> [i \in 1..(MW * MH) |->
                            PixelAfter(0, dets, 1, protoT.data, (i - 1) % MW, (i - 1) \div MW,
                                       MW, MH)]]>>

(***************************************************************************)
(* Inputs of the decoders.  A head output is built from up to MaxRows      *)
(* candidate rows followed by all-zero rows, in the layout of one of the   *)
(* heads; every decoder is applied to every one of them.  A candidate is a *)
(* geometry and a score; its class and mask coefficient follow from the    *)
(* geometry.  The thresholds are scores a row can have, so that a row can  *)
(* lie below, at and above the threshold.                                  *)
(***************************************************************************)
Geoms == { <<0, 0, 320, 320>>, <<0, 0, 640, 640>> }
Scores == {0, 1, 2}
ScoreThresholds == {1, 2}
Candidates == [geom : Geoms, score : Scores]
CandidateLists == UNION { [1..n -> Candidates] : n \in 0..MaxRows }
ClassOf(c) == IF c.geom[3] = 320 THEN 0 ELSE 1

\* Rows for the segmentation head alone, given as the corners (x1, y1, x2, y2)
\* the head emits: a large box of class 0, and two boxes of class 1 of
\* which the second is the right half of the first.  Their mask
\* coefficients are all 1, so that every instance has the same opacity, and
\* their score lies above every threshold.
SegGeoms == { <<0, 0, 320, 320>>, <<0, 0, 100, 100>>, <<50, 0, 100, 100>> }
SegScores == {3}
SegCandidates == [geom : SegGeoms, score : SegScores]
SegCandidateLists == UNION { [1..n -> SegCandidates] : n \in 0..MaxRows }

Layouts == {"generic_cn", "generic_nc", "obb_cn", "pose_cn", "pose_nc", "v26", "v26pose",
            "seg", "seg_proto_first", "proto_only", "seg_few_rows", "seg_narrow"}

\* one row of a head output, by the head's channel order
RowOf(kind, c) ==
    CASE kind = "generic" -> c.geom \o <<c.score>>
      [] kind = "obb"     -> c.geom \o <<0, 1, c.score>>
      [] kind = "pose"    -> c.geom \o <<c.score, 1, 1, 1>>
      [] kind = "v26"     -> c.geom \o <<c.score, ClassOf(c)>>
      [] kind = "v26pose" -> c.geom \o <<c.score, ClassOf(c), 1, 1, 1>>
      [] kind = "seg"     -> c.geom \o <<c.score, ClassOf(c), ClassOf(c)>>
      [] kind = "seg_flat" -> c.geom \o <<c.score, ClassOf(c), 1>>

\* a [1, n, width] tensor: the rows one after the other, then zeros
RowMajor(kind, cands, n, width) ==
    [dims |-> <<1, n, width>>,
     data |-> [k \in 1..(n * width) |->
                 IF (k - 1) \div width < Len(cands)
                 THEN RowOf(kind, cands[((k - 1) \div width) + 1])[((k - 1) % width) + 1]
                 ELSE 0]]

\* a [1, width, n] tensor: channel after channel
ChannelMajor(kind, cands, n, width) ==
    [dims |-> <<1, width, n>>,
     data |-> [k \in 1..(n * width) |->
                 IF (k - 1) % n < Len(cands)
                 THEN RowOf(kind, cands[((k - 1) % n) + 1])[((k - 1) \div n) + 1]
                 ELSE 0]]

\* a [1, 1, 2, 2] prototype tensor: one mask channel of 2 x 2 pixels
ProtoTensor == [dims |-> <<1, 1, 2, 2>>, data |-> <<1, 1, 1, 1>>]

\* the outputs of one session run, in outputNames order
OutsOf(layout, cands) ==
    CASE layout = "generic_cn" -> <<ChannelMajor("generic", cands, MaxAnchors, 5)>>
      [] layout = "generic_nc" -> <<RowMajor("generic", cands, MaxAnchors, 5)>>
      [] layout = "obb_cn"     -> <<ChannelMajor("obb", cands, MaxAnchors + 2, 7)>>
      [] layout = "pose_cn"    -> <<ChannelMajor("pose", cands, MaxAnchors, 8)>>
      [] layout = "pose_nc"    -> <<RowMajor("pose", cands, MaxAnchors, 8)>>
      [] layout = "v26"        -> <<RowMajor("v26", cands, MaxAnchors, 6)>>
      [] layout = "v26pose"    -> <<RowMajor("v26pose", cands, MaxAnchors, 9)>>
      [] layout = "seg"        -> <<RowMajor("seg", cands, SegRows, 7), ProtoTensor>>
      [] layout = "seg_proto_first" -> <<ProtoTensor, RowMajor("seg", cands, SegRows, 7)>>
      [] layout = "proto_only" -> <<ProtoTensor>>
      [] layout = "seg_few_rows" -> <<RowMajor("seg", cands, MaxAnchors, 7), ProtoTensor>>
      [] layout = "seg_narrow" -> <<RowMajor("seg", cands, SegRows, 6), ProtoTensor>>
      [] layout = "seg_flat"   -> <<RowMajor("seg_flat", cands, SegRows, 7), ProtoTensor>>

DecodeInputs ==
    { OutsOf(l, cands) : l \in Layouts, cands \in CandidateLists }
        \cup { OutsOf("seg_flat", cands) : cands \in SegCandidateLists }

\* head = outs[session.outputNames[0]]
HeadOf(outs) == outs[1]

CallGeneric ==
    /\ decHead = "none"
    /\ decHead' = "generic"
    /\ decOut' = decodeYOLO_or_OBB(HeadOf(decOuts), decThr, decTopk, decIsObb)
    /\ UNCHANGED <<decOuts, decThr, decTopk, decIsObb, decMask>>

CallPose ==
    /\ decHead = "none"
    /\ decHead' = "pose"
    /\ decOut' = decodeYOLOPose(HeadOf(decOuts), decThr, decTopk)
    /\ UNCHANGED <<decOuts, decThr, decTopk, decIsObb, decMask>>

CallV26 ==
    /\ decHead = "none"
    /\ decHead' = "v26"
    /\ decOut' = decodeYOLOv26(HeadOf(decOuts), decThr, decTopk)
    /\ UNCHANGED <<decOuts, decThr, decTopk, decIsObb, decMask>>

CallV26Pose ==
    /\ decHead = "none"
    /\ decHead' = "v26pose"
    /\ decOut' = decodeYOLOv26Pose(HeadOf(decOuts), decThr, decTopk)
    /\ UNCHANGED <<decOuts, decThr, decTopk, decIsObb, decMask>>

\* decOut records the instances the mask was drawn from
CallSeg ==
    /\ decHead = "none"
    /\ decHead' = "seg"
    /\ decMask' = decodeYOLOSeg(decOuts, decThr, decTopk)
    /\ decOut' = IF SegAccepts(decOuts) THEN SegInstances(decOuts, decThr, decTopk) ELSE <<>>
    /\ UNCHANGED <<decOuts, decThr, decTopk, decIsObb>>

DecodeStart(outs, thr, topk, isObb) ==
    /\ decOuts = outs
    /\ decThr = thr
    /\ decTopk = topk
    /\ decIsObb = isObb
    /\ decHead = "none"
    /\ decOut = <<>>
    /\ decMask = <<>>

DecodeIdle == DecodeStart(<<>>, 1, 1, FALSE)

(***************************************************************************)
(* Inputs of parseHeader and its one call.                                 *)
(***************************************************************************)
\* Buffers handed to parseHeader: a header of chosen field bytes and up to
\* MaxPayload payload bytes, cut to every length.  The top byte of a 32-bit
\* field stays below 128 so that its value stays below 2^31.
TypeBytes == {10, 9}
DtypeBytes == {1, 0}
LayoutBytes == {1, 2}
U16Bytes == { <<128, 2>>, <<2, 128>> }
U32Bytes == { <<1, 0, 0, 0>>, <<4, 3, 2, 1>>, <<255, 255, 255, 127>> }
PayloadBytes == <<7, 8, 9, 10>>

FullBuffers ==
    { <<t, d, l, 0>> \o h \o w \o s \o f \o SubSeq(PayloadBytes, 1, MaxPayload) :
        t \in TypeBytes, d \in DtypeBytes, l \in LayoutBytes,
        h \in U16Bytes, w \in U16Bytes, s \in U32Bytes, f \in {<<0, 0, 0, 0>>, <<9, 0, 0, 1>>} }

HeaderBuffers == { SubSeq(b, 1, n) : b \in FullBuffers, n \in 0..(HeaderLen + MaxPayload) }

ParseHeader ==
    /\ ~hdrDone
    /\ hdrOut' = parseHeader(hdrBuf)
    /\ hdrDone' = TRUE
    /\ UNCHANGED hdrBuf

HeaderStart(buf) ==
    /\ hdrBuf = buf
    /\ hdrOut = [null |-> TRUE]
    /\ hdrDone = FALSE

HeaderIdle == HeaderStart(<<>>)

(***************************************************************************)
(* inference/onnx.js: initSessions, prepareGpuFetchesForNms, runDetect     *)
(***************************************************************************)
\* The dimensions a detect head can have: the NMS-embedded [1, 300, 6] and a
\* raw head [1, 84, 8400]; in the output metadata a dimension can also be
\* symbolic, which is written 0 (it is not a number, so every comparison of
\* it with a number is false).
DimsV26 == <<1, 300, 6>>
DimsRaw == <<1, 84, 8400>>
DimsSymbolic == <<1, 0, 0>>

\* What initSessions finds: the configuration, the detect model's metadata
\* and actual head, and which of the steps that can fail do fail.
DetectEnvs ==
    { e \in [ENABLE_DET : BOOLEAN, USE_CPU : BOOLEAN, keyObb : BOOLEAN,
             metaDims : {DimsV26, DimsRaw, DimsSymbolic},
             headDims : {DimsV26, DimsRaw},
             deviceOk : BOOLEAN, createOk : BOOLEAN, tensorOk : BOOLEAN,
             oneDSlots : 1..2] :
        e.metaDims # DimsSymbolic => e.headDims = e.metaDims }

\* if (dims.length === 3 && dims[1] === 300 && dims[2] === 6) IS_V26 = true;
LooksV26(dims) == Len(dims) = 3 /\ dims[2] = 300 /\ dims[3] = 6

\* IS_OBB after the heuristics of initSessions: the key names an obb model,
\* or the metadata has a dimension C > 10 (then C >= 6 and C - 5 > 0) and
\* the head is not the NMS-embedded one
ObbAfterInit(keyObb, dims) ==
    \/ keyObb
    \/ ~LooksV26(dims) /\ (dims[2] > 10 \/ dims[3] > 10)

\* prepareGpuFetchesForNms(sess, topk): gpuFetches (bound or null) and
\* gpuFetchesReady afterwards, and whether the pre-binding failed
prepareGpuFetchesForNms(dev, sess, tensorOk, oneDSlots) ==
    IF ~dev \/ ~sess THEN [gpuFetches |-> FALSE, gpuFetchesReady |-> FALSE, failed |-> FALSE]
    \* makeGpuTensor throws: catch { gpuFetches = null; gpuFetchesReady = false; }
    ELSE IF ~tensorOk THEN [gpuFetches |-> FALSE, gpuFetchesReady |-> FALSE, failed |-> TRUE]
    ELSE IF oneDSlots >= 2 THEN [gpuFetches |-> TRUE, gpuFetchesReady |-> TRUE, failed |-> FALSE]
         ELSE [gpuFetches |-> FALSE, gpuFetchesReady |-> FALSE, failed |-> TRUE]

\* initSessions(baseURL)
InitSessions ==
    /\ ~detBooted
    /\ detBooted' = TRUE
    /\ detSession' = detEnv.ENABLE_DET
    /\ IS_V26' = (detEnv.ENABLE_DET /\ LooksV26(detEnv.metaDims))
    /\ IS_OBB' = (detEnv.ENABLE_DET /\ ObbAfterInit(detEnv.keyObb, detEnv.metaDims))
    /\ device' = (~detEnv.USE_CPU /\ detEnv.deviceOk)
    /\ IF detSession' /\ ~IS_V26' /\ ~IS_OBB'
       THEN IF detEnv.createOk
            THEN LET r == prepareGpuFetchesForNms(device', TRUE, detEnv.tensorOk,
                                                  detEnv.oneDSlots)
                 IN  /\ detNmsSession' = TRUE
                     /\ gpuFetches' = r.gpuFetches
                     /\ gpuFetchesReady' = r.gpuFetchesReady
                     /\ setupFailure' = IF r.failed THEN "prebind" ELSE "none"
            \* catch (e) { ...; detNmsSession = null; }
            ELSE /\ detNmsSession' = FALSE
                 /\ setupFailure' = "create"
                 /\ UNCHANGED <<gpuFetches, gpuFetchesReady>>
       ELSE UNCHANGED <<detNmsSession, gpuFetches, gpuFetchesReady, setupFailure>>
    /\ UNCHANGED <<detEnv, detPaths>>

\* What one call of runDetect does with the head: `session` names the run of
\* the decoder session ("none", "prebound" with gpuFetches, "default"
\* without) and `decoded` who made the detection list.
runDetect(found) ==
    IF ~detSession THEN [session |-> "none", decoded |-> "none"]
    ELSE IF LooksV26(detEnv.headDims) THEN [session |-> "none", decoded |-> "decodeYOLOv26"]
    ELSE IF ~IS_OBB /\ detNmsSession
         THEN LET how == IF gpuFetchesReady THEN "prebound" ELSE "default"
              IN  IF found THEN [session |-> how, decoded |-> "decoder"]
                  ELSE [session |-> how, decoded |-> "js"]
         \* decodeYOLO_or_OBB(head, ...); nmsPerClass(dets, ...)
         ELSE [session |-> "none", decoded |-> "js"]

\* one detect frame; found: the decoder session's outputs hold a boxes, a
\* scores and a classes tensor
RunDetect ==
    /\ detBooted
    /\ Len(detPaths) < MaxDetectFrames
    /\ \E found \in BOOLEAN : detPaths' = Append(detPaths, runDetect(found))
    /\ UNCHANGED <<detEnv, detSession, IS_OBB, IS_V26, device, detNmsSession, gpuFetches,
                   gpuFetchesReady, detBooted, setupFailure>>

\* export let detSession = null; ... let gpuFetchesReady = false;
OnnxStart(e) ==
    /\ detEnv = e
    /\ detSession = FALSE
    /\ IS_OBB = FALSE
    /\ IS_V26 = FALSE
    /\ device = FALSE
    /\ detNmsSession = FALSE
    /\ gpuFetches = FALSE
    /\ gpuFetchesReady = FALSE
    /\ detBooted = FALSE
    /\ detPaths = <<>>
    /\ setupFailure = "none"

OnnxIdle ==
    OnnxStart([ENABLE_DET |-> FALSE, USE_CPU |-> TRUE, keyObb |-> FALSE,
               metaDims |-> DimsRaw, headDims |-> DimsRaw, deviceOk |-> FALSE,
               createOk |-> FALSE, tensorOk |-> FALSE, oneDSlots |-> 1])

(***************************************************************************)
(* Specifications.                                                         *)
(***************************************************************************)
PumpInit ==
    /\ \E m \in Modes : \E s \in StreamSets(m) : PumpStart(m, s)
    /\ TrackerStart(1)
    /\ NmsIdle
    /\ DecodeIdle
    /\ HeaderIdle
    /\ OnnxIdle
    /\ MathIdle

PumpNext ==
    \/ OnMessage /\ UNCHANGED <<trackerVars, nmsVars, decVars, hdrVars, onnxVars, mathVars>>
    \/ Complete /\ UNCHANGED <<trackerVars, nmsVars, decVars, hdrVars, onnxVars, mathVars>>
    \/ Fail /\ UNCHANGED <<trackerVars, nmsVars, decVars, hdrVars, onnxVars, mathVars>>
    \/ LoadedMetadata /\ UNCHANGED <<trackerVars, nmsVars, decVars, hdrVars, onnxVars, mathVars>>
    \/ RafTick /\ UNCHANGED <<trackerVars, nmsVars, decVars, hdrVars, onnxVars, mathVars>>
    \/ RafComplete /\ UNCHANGED <<trackerVars, nmsVars, decVars, hdrVars, onnxVars, mathVars>>
    \/ RafFail /\ UNCHANGED <<trackerVars, nmsVars, decVars, hdrVars, onnxVars, mathVars>>

SpecPump == PumpInit /\ [][PumpNext]_vars

NmsInit ==
    /\ \E dets \in NmsLists : \E thr \in NmsThresholds : \E topk \in 0..MaxNmsTopk :
          NmsStart(dets, thr, topk)
    /\ TrackerStart(1)
    /\ PumpStart("binary", {"det"})
    /\ DecodeIdle
    /\ HeaderIdle
    /\ OnnxIdle
    /\ MathIdle

NmsNext ==
    \/ RunNms /\ UNCHANGED <<trackerVars, pumpVars, decVars, hdrVars, onnxVars, mathVars>>
    \/ RunNmsAgain /\ UNCHANGED <<trackerVars, pumpVars, decVars, hdrVars, onnxVars, mathVars>>

SpecNms == NmsInit /\ [][NmsNext]_vars

TrackerInit ==
    /\ \E lim \in 0..MaxTtl : TrackerStart(lim)
    /\ PumpStart("binary", {"det"})
    /\ NmsIdle
    /\ DecodeIdle
    /\ HeaderIdle
    /\ OnnxIdle
    /\ MathIdle

TrackerNext == \E dets \in DetLists : Update(dets) /\ UNCHANGED <<pumpVars, nmsVars, decVars, hdrVars, onnxVars, mathVars>>

SpecTracker == TrackerInit /\ [][TrackerNext]_vars

DecodeInit ==
    /\ \E outs \in DecodeInputs : \E thr \in ScoreThresholds : \E topk \in 1..MaxTopk :
       \E isObb \in BOOLEAN : DecodeStart(outs, thr, topk, isObb)
    /\ TrackerStart(1)
    /\ PumpStart("binary", {"det"})
    /\ NmsIdle
    /\ HeaderIdle
    /\ OnnxIdle
    /\ MathIdle

DecodeNext ==
    \/ CallGeneric /\ UNCHANGED <<trackerVars, pumpVars, nmsVars, hdrVars, onnxVars, mathVars>>
    \/ CallPose /\ UNCHANGED <<trackerVars, pumpVars, nmsVars, hdrVars, onnxVars, mathVars>>
    \/ CallV26 /\ UNCHANGED <<trackerVars, pumpVars, nmsVars, hdrVars, onnxVars, mathVars>>
    \/ CallV26Pose /\ UNCHANGED <<trackerVars, pumpVars, nmsVars, hdrVars, onnxVars, mathVars>>
    \/ CallSeg /\ UNCHANGED <<trackerVars, pumpVars, nmsVars, hdrVars, onnxVars, mathVars>>

SpecDecode == DecodeInit /\ [][DecodeNext]_vars

HeaderInit ==
    /\ \E buf \in HeaderBuffers : HeaderStart(buf)
    /\ TrackerStart(1)
    /\ PumpStart("binary", {"det"})
    /\ NmsIdle
    /\ DecodeIdle
    /\ OnnxIdle
    /\ MathIdle

HeaderNext == ParseHeader /\ UNCHANGED <<trackerVars, pumpVars, nmsVars, decVars, onnxVars, mathVars>>

SpecHeader == HeaderInit /\ [][HeaderNext]_vars

DetectInit ==
    /\ \E e \in DetectEnvs : OnnxStart(e)
    /\ TrackerStart(1)
    /\ PumpStart("binary", {"det"})
    /\ NmsIdle
    /\ DecodeIdle
    /\ HeaderIdle
    /\ MathIdle

DetectNext ==
    \/ InitSessions /\ UNCHANGED <<trackerVars, pumpVars, nmsVars, decVars, hdrVars, mathVars>>
    \/ RunDetect /\ UNCHANGED <<trackerVars, pumpVars, nmsVars, decVars, hdrVars, mathVars>>

SpecDetect == DetectInit /\ [][DetectNext]_vars

MathInit ==
    /\ \E i \in MapInputs : MathStart(i[1], i[2])
    /\ TrackerStart(1)
    /\ PumpStart("binary", {"det"})
    /\ NmsIdle
    /\ DecodeIdle
    /\ HeaderIdle
    /\ OnnxIdle

MathNext == MapBox /\ UNCHANGED <<trackerVars, pumpVars, nmsVars, decVars, hdrVars, onnxVars>>

SpecMath == MathInit /\ [][MathNext]_vars


(***************************************************************************)
(* Properties of the tracker (checked under SpecTracker).                  *)
(***************************************************************************)
OutIds == { out[k].id : k \in DOMAIN out }

\* C1: every track an update returns has miss = 0 and was matched or created
\* by that update; a stored track that was neither is not in the returned list.
EmittedTracksAreFresh ==
    /\ \A k \in DOMAIN out :
          /\ out[k].id \in DOMAIN tracks
          /\ tracks[out[k].id].miss = 0
          /\ out[k].id \in touched
    /\ \A id \in DOMAIN tracks : id \notin touched => id \notin OutIds

\* C1 witness: an update returned a track while a stale track stayed stored.
StaleTrackHeldBack ==
    /\ out # <<>>
    /\ \E id \in DOMAIN tracks : tracks[id].miss >= 1 /\ id \notin OutIds

\* C2: the ids given to new tracks are 1, 2, 3, ... in order of creation, so
\* no id is given twice, also not after its track was removed.
IdsAreSequential ==
    /\ \A i \in DOMAIN created : created[i] = i
    /\ nextId = Len(created) + 1

\* C2 witness: a track was created in an update after the one that removed
\* an older track.
CreatedAfterRemoval ==
    \E old \in DOMAIN unseen : \E new \in DOMAIN tracks :
        /\ old \notin DOMAIN tracks
        /\ unseen[old] > ttl + 1
        /\ new > old
        /\ tracks[new].age = 1

\* C3: a track unmatched for k consecutive updates is out of the output from
\* k = 1, stays stored with miss = k while k <= ttl, and is removed once
\* k = ttl + 1; every stored track has miss <= ttl.
RemovedExactlyAfterTtl ==
    \A id \in DOMAIN unseen :
        /\ (id \in DOMAIN tracks) <=> (unseen[id] <= ttl)
        /\ id \in DOMAIN tracks => tracks[id].miss = unseen[id] /\ tracks[id].miss <= ttl
        /\ unseen[id] >= 1 => id \notin OutIds
        /\ unseen[id] = 0 => id \in OutIds

\* C3 witness: with ttl >= 1, one track was removed at its (ttl+1)-th miss
\* and another was matched again, under its id, after a miss.
RemovedAndRevived ==
    /\ ttl >= 1
    /\ \E id \in DOMAIN unseen : id \notin DOMAIN tracks /\ unseen[id] = ttl + 1
    /\ \E id \in DOMAIN tracks :
          tracks[id].miss = 0 /\ tracks[id].hits >= 2 /\ tracks[id].age > tracks[id].hits

\* C4 as stated: in a run of updates that each get the same single matchable
\* detection, each update returns one track, always the same id, whose hits
\* is the number of updates of the run so far.
StreakHitsCountRun ==
    streak.len >= 1 =>
        /\ Len(out) = 1
        /\ out[1].id = streak.id
        /\ tracks[out[1].id].hits = streak.len

\* C4 amended: in such a run each update returns one track, always the same
\* id, and its hits grows by one per update; hits is the number of updates of
\* the run when the first of them created the track.
StreakKeepsIdAndCountsHits ==
    streak.len >= 1 =>
        /\ Len(out) = 1
        /\ out[1].id = streak.id
        /\ tracks[out[1].id].hits = streak.hits0 + streak.len - 1
        /\ streak.hits0 = 1 => tracks[out[1].id].hits = streak.len

\* C4 witness: the second update of such a run, begun on a new track.
SecondOfStreak == streak.len = 2 /\ streak.hits0 = 1


\* what a track shows of the detection it holds
Shown(t) == <<t.box, t.label, t.score, t.keypoints>>

\* C16: a track's stored box is the box of the detection it was created from
\* or last matched to: an update in which the track is not matched leaves
\* its box, label, score and keypoints unchanged, and an update writes to a
\* track only the box (and label, score, keypoints) of one of that update's
\* input detections.
TrackShowsLastDetection ==
    [][\A id \in DOMAIN tracks' :
          /\ (id \in DOMAIN tracks /\ id \notin touched')
                => Shown(tracks'[id]) = Shown(tracks[id])
          /\ (id \notin DOMAIN tracks \/ id \in touched')
                => \E k \in DOMAIN lastDets' :
                      Shown(tracks'[id]) = <<lastDets'[k].box, lastDets'[k].label,
                                             lastDets'[k].score, lastDets'[k].keypoints>>
          /\ (id \in DOMAIN tracks /\ Shown(tracks'[id]) # Shown(tracks[id]))
                => id \in touched']_vars

\* the last update matched a track that had been matched before, to a
\* detection with keypoints, and left another stored track unmatched
MatchedOneLeftOne ==
    /\ \E id \in touched : tracks[id].hits >= 2 /\ tracks[id].keypoints # <<>>
    /\ \E id \in DOMAIN tracks : id \notin touched /\ tracks[id].miss > 0

\* the IoU the last update computed for track id and detection di
ConfOf(id, di) ==
    (CHOOSE k \in DOMAIN lastPairs : lastPairs[k].id = id /\ lastPairs[k].di = di)

\* C24: in one update, matching is one-to-one and thresholded: no track is
\* matched to two detections, no detection to two tracks, every match has
\* an IoU that is not below iouMatch, and a pair is matched only if neither
\* its track nor its detection was claimed by a pair of higher IoU: a pair
\* of higher IoU that shares an end with a match lost its other end to a
\* match that is no lower than itself.
MatchingIsOneToOneAndThresholded ==
    /\ \A p, q \in lastMatches : (p[1] = q[1] \/ p[2] = q[2]) => p = q
    /\ \A p \in lastMatches :
          /\ \E k \in DOMAIN lastPairs : lastPairs[k].id = p[1] /\ lastPairs[k].di = p[2]
          /\ p[2] \in DOMAIN lastDets
          /\ ~BelowThr(lastPairs[ConfOf(p[1], p[2])].conf, IouMatchNum, IouMatchDen)
          /\ \A k \in DOMAIN lastPairs :
                (/\ ConfLess(lastPairs[ConfOf(p[1], p[2])].conf, lastPairs[k].conf)
                 /\ (lastPairs[k].id = p[1] \/ lastPairs[k].di = p[2]))
                => /\ <<lastPairs[k].id, lastPairs[k].di>> \notin lastMatches
                   /\ \E q \in lastMatches :
                         /\ q # p
                         /\ q[1] = lastPairs[k].id \/ q[2] = lastPairs[k].di
                         /\ ~ConfLess(lastPairs[ConfOf(q[1], q[2])].conf, lastPairs[k].conf)

\* two tracks and two detections were matched crosswise: the pair of IoU
\* 3/4 was skipped because its track was taken at IoU 1, and its detection
\* went to the other track at IoU 2/3, while a pair of IoU just below 1/2
\* was left unmatched
GreedySkippedHigherPair ==
    /\ Cardinality(lastMatches) = 2
    /\ \E p \in lastMatches : \E k \in DOMAIN lastPairs :
          /\ lastPairs[k].di = p[2]
          /\ lastPairs[k].id # p[1]
          /\ ConfLess(lastPairs[ConfOf(p[1], p[2])].conf, lastPairs[k].conf)
          /\ lastPairs[ConfOf(p[1], p[2])].conf = <<4, 6>>
          /\ lastPairs[k].conf = <<6, 8>>
    /\ \E k \in DOMAIN lastPairs : lastPairs[k].conf = <<4, 8>>

\* the angle entries among a set of extras
AngleOf(extras) == { p \in extras : p[1] = "angle" }

\* C25: after a track is matched, its detection-derived fields are those of
\* the matched detection, extras included: an emitted track that was matched
\* in this update carries an angle if and only if the detection it matched
\* carries one, with the same value.
MatchedTrackHasAngleOfDetection ==
    \A k \in DOMAIN out : \A p \in lastMatches :
        p[1] = out[k].id => AngleOf(out[k].extras) = AngleOf(lastDets[p[2]].extras)

\* a track that took angle 1 from an earlier detection was matched with a
\* detection that has no angle and is emitted with the new box and angle 1
StaleAngleEmitted ==
    \E k \in DOMAIN out : \E p \in lastMatches :
        /\ p[1] = out[k].id
        /\ lastDets[p[2]].extras = {}
        /\ out[k].box = lastDets[p[2]].box
        /\ out[k].box = BoxB
        /\ AngleOf(out[k].extras) = {<<"angle", 1>>}

StartedJobs == { started[k][1] : k \in DOMAIN started }

\* C5: at most one frame is in flight at any moment, and only while the
\* in-flight flag is set: a pump or rafLoop call made while the flag is set
\* starts no second inference.
AtMostOneInFlight ==
    /\ Cardinality(inflight) <= 1
    /\ inflight # {} => processing

\* C5 witness: a frame arrived, and the pump was called, while another frame
\* was in flight.
ArrivedWhileInFlight == mode = "binary" /\ inflight # {} /\ latest # 0

\* C6: the slot is empty or holds the most recently accepted frame; each
\* processing start takes the most recently accepted frame; jobs start in
\* increasing order, so a frame passed over is never processed later.
SlotHoldsNewest ==
    /\ latest # 0 => latest = accepted
    /\ \A k \in DOMAIN started : started[k][1] = started[k][2]
    /\ \A k, l \in DOMAIN started : k < l => started[k][1] < started[l][1]

\* C6 witness: pumpBinary started a frame after passing over an older one
\* that had waited in the slot.
FrameSuperseded ==
    /\ mode = "binary"
    /\ \E j \in 1..accepted : \E k \in DOMAIN started :
          j \notin StartedJobs /\ started[k][1] > j

\* C7: a job waits in the slot only while a frame is in flight: when a frame
\* settles and a job waits, that job's processing starts at once, with no
\* further arrival needed.
WaitingJobIsStarted == latest # 0 => processing


\* C11: a message that is not binary, whose buffer fails header validation
\* (shorter than 16 bytes, byte 0 not 10, byte 1 not 1, byte 2 not 1) or
\* declares a height or width other than 640 is discarded without effect:
\* the pending-job slot, the in-flight flag, the runs in flight, the trackers
\* and the input buffer are unchanged, the pump is not called and nothing is
\* sent.
DiscardedMessageHasNoEffect ==
    [][(/\ mode # "webcam"
        /\ accepted' # accepted \/ discards' # discards
        /\ \/ ~lastMsg'.binary
           \/ Len(lastMsg'.buf) < 16
           \/ lastMsg'.buf[1] # 10 \/ lastMsg'.buf[2] # 1 \/ lastMsg'.buf[3] # 1
           \/ lastMsg'.buf[5] + 256 * lastMsg'.buf[6] # 640
           \/ lastMsg'.buf[7] + 256 * lastMsg'.buf[8] # 640)
       => UNCHANGED <<latest, processing, inflight, started, inputBuf, tracked, calls, sent>>]_vars

\* a frame of another width was discarded while one frame was in flight and
\* another was waiting in the slot
WrongSizeDiscardedWhileBusy ==
    /\ discards > 0
    /\ lastMsg.binary
    /\ Len(lastMsg.buf) > 16
    /\ lastMsg.buf[1] = 10
    /\ lastMsg.buf[5] + 256 * lastMsg.buf[6] = 640
    /\ lastMsg.buf[7] + 256 * lastMsg.buf[8] # 640
    /\ inflight # {}
    /\ latest # 0

\* the messages handed to the transport for frame j
JsonOf(j) == {k \in DOMAIN sent : sent[k].of = j /\ sent[k].json}
BinaryOf(j) == {k \in DOMAIN sent : sent[k].of = j /\ ~sent[k].json}

\* C12: if the model runtime raises while a frame is processed (in the
\* detect, pose or segmentation run), no message of any kind, JSON or binary
\* mask, is handed to the transport for that frame.
FailedFrameSendsNothing ==
    \A i \in DOMAIN settled :
        ~settled[i].ok => \A k \in DOMAIN sent : sent[k].of # settled[i].frame

\* the pose run of a frame raised after its detect run had returned, while
\* the transport was open, and an earlier frame had been sent
RaisedInPoseAfterDetect ==
    \E i \in DOMAIN settled :
        /\ ~settled[i].ok
        /\ settled[i].at = "pose"
        /\ "det" \in streams
        /\ settled[i].open
        /\ \E k \in DOMAIN sent : sent[k].of < settled[i].frame

\* some frame's processing has raised
AfterFailure == \E i \in DOMAIN settled : ~settled[i].ok

\* C13: a model-runtime failure is fatal for that frame only: after a frame
\* whose processing raised, the in-flight flag is set only while a run is in
\* flight (so it was cleared when the failed run ended), and the next frame
\* accepted by the pump, or captured by the next animation-frame tick that
\* finds no run in flight, is started like any other.
FailureIsConfinedToItsFrame ==
    /\ [](AfterFailure => (processing <=> inflight # {}))
    /\ [][(AfterFailure /\ accepted' # accepted /\ inflight = {} /\ sessions)
            => (accepted' \in inflight' /\ processing' /\ inputBuf' = accepted')]_vars

\* a frame's processing raised and a later frame was processed and sent
SentAfterFailure ==
    \E i \in DOMAIN settled : \E k \in DOMAIN sent :
        /\ ~settled[i].ok
        /\ sent[k].of > settled[i].frame
        /\ sent[k].json

\* the prediction message the active streams call for
JsonAsClaimed(msg) ==
    /\ {"frame", "seq", "width", "height"} \subseteq msg.fields
    /\ IF {"det", "pose"} \subseteq streams
       THEN msg.type = "yolo_combined" /\ {"yolo", "yolo_pose"} \subseteq msg.fields
       ELSE IF "det" \in streams
            THEN /\ msg.type = "yolo"
                 /\ "predictions" \in msg.fields
                 /\ "yolo_pose" \notin msg.fields
            ELSE /\ msg.type = "yolo_pose"
                 /\ "predictions" \in msg.fields
                 /\ "yolo" \notin msg.fields

\* C19 as stated: for each processed frame with at least one of the detection
\* and pose streams active, exactly one JSON message is handed to the
\* transport, of the type and with the fields the active streams call for.
EveryProcessedFrameSendsOneJson ==
    \A i \in DOMAIN settled :
        (settled[i].ok /\ Tracks(streams))
            => /\ Cardinality(JsonOf(settled[i].frame)) = 1
               /\ \A k \in JsonOf(settled[i].frame) : JsonAsClaimed(sent[k])

\* C19: for each processed frame with at least one of the detection and pose
\* streams active, exactly one JSON message is handed to the transport when
\* the socket is open (or the sender is set) at the time of the send, and
\* none otherwise: type yolo_combined carrying both yolo and yolo_pose when
\* both streams are active, type yolo with predictions and no yolo_pose field
\* when only detection is active, type yolo_pose with predictions and no yolo
\* field when only pose is active.
ProcessedFrameSendsOneJsonWhenOpen ==
    \A i \in DOMAIN settled :
        (settled[i].ok /\ Tracks(streams))
            => /\ Cardinality(JsonOf(settled[i].frame)) = IF settled[i].open THEN 1 ELSE 0
               /\ \A k \in JsonOf(settled[i].frame) : JsonAsClaimed(sent[k])

\* a detection-only webcam pipeline has sent the message of a processed frame
\* and has processed another frame while no sender was set
DetectionOnlySentAndSkipped ==
    /\ streams = {"det"}
    /\ mode = "webcam"
    /\ \E i \in DOMAIN settled : settled[i].ok /\ settled[i].open
                                    /\ JsonOf(settled[i].frame) # {}
    /\ \E i \in DOMAIN settled : settled[i].ok /\ ~settled[i].open

\* the unsigned 32-bit number four bytes stand for, lowest byte first
LittleEndian(b, at) == b[at] + 256 * b[at + 1] + 65536 * b[at + 2] + 16777216 * b[at + 3]

\* C20: the segmentation message is one binary frame of exactly
\* 8 + 4*width*height bytes: mask width then mask height as little-endian
\* uint32, followed by the bytes of the float32 mask plane unchanged; it is
\* produced only when the segmentation decoder returned a result.
SegMessageAsSpecified ==
    \A i \in DOMAIN settled :
        LET rec == settled[i]
            bin == BinaryOf(rec.frame)
        IN  /\ bin # {} => (rec.ok /\ rec.res # <<>>)
            /\ (rec.ok /\ rec.open /\ rec.res # <<>>) => Cardinality(bin) = 1
            /\ \A k \in bin :
                  LET b == sent[k].bytes
                      m == rec.res[1]
                  IN  /\ Len(b) = 8 + 4 * m.width * m.height
                      /\ LittleEndian(b, 1) = m.width
                      /\ LittleEndian(b, 5) = m.height
                      /\ \A c \in 1..(m.width * m.height) : \A o \in 1..4 :
                            b[8 + 4 * (c - 1) + o] = m.data[c][o]

\* the mask of a frame was sent as 16 bytes for a plane two cells wide, and
\* another frame whose segmentation run returned null sent no binary frame
MaskSentAndNullSkipped ==
    /\ \E k \in DOMAIN sent : ~sent[k].json /\ Len(sent[k].bytes) = 16
                                 /\ sent[k].bytes[1] = 2
    /\ \E i \in DOMAIN settled : /\ settled[i].ok
                                 /\ settled[i].open
                                 /\ "seg" \in streams
                                 /\ settled[i].res = <<>>
                                 /\ BinaryOf(settled[i].frame) = {}

\* the jobs processing was started with, in the order of the starts
StartOrder == [k \in DOMAIN started |-> started[k][1]]

\* the messages a step hands to the transport
NewlySent == { k \in DOMAIN sent' : k > Len(sent) }

\* C22: the jobs that get processed form a strictly increasing subsequence
\* of the arrival order of accepted frames (no job is processed twice, none
\* after a job that arrived later), and each outbound message carries the
\* identity of the job whose pixels produced it: it is sent for a started
\* job while the input buffer still holds that job's pixels.
JobsProcessedInArrivalOrder ==
    /\ [](/\ \A i, k \in DOMAIN started : i < k => StartOrder[i] < StartOrder[k]
          /\ \A k \in DOMAIN started : StartOrder[k] \in 1..accepted
          /\ \A k \in DOMAIN sent : \E i \in DOMAIN started : sent[k].of = StartOrder[i])
    /\ [][\A k \in NewlySent : sent'[k].of = inputBuf /\ sent'[k].of \in inflight]_vars

\* frames 1 and 3 were processed and answered, frame 2 was superseded in
\* the slot and never processed
ProcessedAroundDroppedFrame ==
    /\ mode = "binary"
    /\ accepted = 3
    /\ StartOrder = <<1, 3>>
    /\ \E k \in DOMAIN sent : sent[k].of = 1
    /\ \E k \in DOMAIN sent : sent[k].of = 3
    /\ inflight = {}

\* C23: the shared float input buffer is written only at the start of a
\* frame's processing: a step that writes it starts the frame written (or
\* finds no session to run), and while a frame stays in flight, from the
\* start of its first model run to the completion of its last, the buffer
\* keeps that frame's pixels, whatever arrives or is called back.
InputBufferStableDuringFrame ==
    /\ [](\A j \in inflight : inputBuf = j)
    /\ [][/\ \A j \in inflight \cap inflight' : inputBuf' = inputBuf
          /\ inputBuf' # inputBuf =>
                /\ inputBuf' \notin inflight
                /\ inputBuf' \in inflight' \/ ~sessions]_vars

\* a frame arrived and was queued while another frame, whose pixels the
\* buffer holds, awaits its second model run
ArrivalDuringSecondRun ==
    /\ mode = "binary"
    /\ streams = {"det", "pose"}
    /\ \E j \in inflight : stage[j] = "pose" /\ inputBuf = j /\ latest > j
    /\ lastMsg.binary /\ VerdictOf(lastMsg) = "accepted"

\* C29: every frame job that reaches the pipeline has a pixel payload of
\* exactly 3*H*W bytes (1,228,800 for 640x640): whenever the input buffer
\* holds the pixels of a frame, the conversion that wrote it had that many
\* samples to read.
ConvertedPayloadIsComplete == inputBuf # 0 => inputBytes = NUM

\* a 640x640 frame one payload byte short was accepted, converted (the last
\* cell of the input buffer written with NaN), run through the models and
\* answered with a message
ShortPayloadProcessed ==
    /\ mode = "binary"
    /\ inputBuf # 0
    /\ inputBytes = NUM - 1
    /\ NaNCells(inputBytes) = 1
    /\ \E k \in DOMAIN sent : sent[k].of = inputBuf
    /\ \E k \in DOMAIN started : started[k][1] = inputBuf

(***************************************************************************)
(* Properties of the detect sessions (checked under SpecDetect).           *)
(***************************************************************************)
\* C14: if setting up the GPU-resident fast path fails at session setup (the
\* pre-binding in prepareGpuFetchesForNms fails, or the decoder/NMS session
\* cannot be created), every detect frame of the session is decoded by the
\* CPU-side decoder plus nmsPerClass and the decoder session is not run for
\* any frame.
SetupFailureMeansCpuPath ==
    setupFailure # "none" =>
        \A k \in DOMAIN detPaths :
            detPaths[k].session = "none" /\ detPaths[k].decoded = "js"

\* the part of C14 that holds for a decoder session that could not be
\* created: it stays null, and every frame with a raw head takes the
\* CPU-side decoder and nmsPerClass
CreateFailureMeansCpuPath ==
    setupFailure = "create" =>
        /\ ~detNmsSession
        /\ ~gpuFetchesReady
        /\ \A k \in DOMAIN detPaths :
              /\ detPaths[k].session = "none"
              /\ ~LooksV26(detEnv.headDims) => detPaths[k].decoded = "js"

\* after a failed pre-binding two frames were decoded by the decoder session,
\* run without pre-bound output buffers
DecoderRunAfterFailedPrebind ==
    /\ setupFailure = "prebind"
    /\ Len(detPaths) = 2
    /\ \A k \in DOMAIN detPaths :
          detPaths[k].session = "default" /\ detPaths[k].decoded = "decoder"

\* C30: oriented-box mode is selected at session setup only for oriented
\* models: for a detect model whose key does not contain 'obb' and whose
\* declared first output is a plain detection head ([1, 84, 8400]),
\* initSessions leaves IS_OBB false, so the decoder/NMS session is created
\* (when its creation does not fail) and runDetect decodes without the
\* oriented-box channel layout.
PlainHeadIsNotOriented ==
    (detBooted /\ detEnv.ENABLE_DET /\ ~detEnv.keyObb /\ detEnv.metaDims = DimsRaw)
        => /\ ~IS_OBB
           /\ detEnv.createOk => detNmsSession

\* a plain [1, 84, 8400] model with a key without 'obb' was taken for an
\* oriented one: no decoder session was created although nothing failed, and
\* two frames were decoded by decodeYOLO_or_OBB with isObb set
PlainHeadTakenForOriented ==
    /\ detBooted
    /\ detEnv.ENABLE_DET
    /\ ~detEnv.keyObb
    /\ detEnv.metaDims = DimsRaw
    /\ detEnv.createOk /\ detEnv.deviceOk /\ detEnv.tensorOk /\ ~detEnv.USE_CPU
    /\ IS_OBB
    /\ ~detNmsSession
    /\ setupFailure = "none"
    /\ Len(detPaths) = 2
    /\ \A k \in DOMAIN detPaths : detPaths[k].decoded = "js" /\ detPaths[k].session = "none"

(***************************************************************************)
(* Properties of the suppressor (checked under SpecNms).                   *)
(***************************************************************************)
\* C8: nmsPerClass returns no two detections of one label whose boxes have
\* IoU greater than the threshold.
NmsKeepsNoOverlap ==
    nmsDone =>
        \A i, j \in DOMAIN nmsOut :
            (i < j /\ nmsOut[i].label = nmsOut[j].label)
                => ~AboveThr(iou(nmsOut[i].box, nmsOut[j].box), nmsThr[1], nmsThr[2])

\* C8 witness: the input held two detections of one label overlapping above
\* the threshold, topk did not cut the list, and the call dropped one.
NmsSuppressedOne ==
    /\ nmsDone
    /\ nmsTopk >= Len(nmsIn)
    /\ Len(nmsOut) >= 1
    /\ Len(nmsOut) < Len(nmsIn)
    /\ \E i, j \in DOMAIN nmsIn :
          /\ i < j
          /\ nmsIn[i].label = nmsIn[j].label
          /\ AboveThr(iou(nmsIn[i].box, nmsIn[j].box), nmsThr[1], nmsThr[2])

\* how often x occurs in a list
CountIn(list, x) == Cardinality({k \in DOMAIN list : list[k] = x})

\* C15: nmsPerClass is idempotent: applying it to its own output, with the
\* same threshold and topK, returns the same list, with the same elements in
\* the same order.
NmsIsIdempotent == nmsAgainDone => nmsAgain = nmsOut

\* what holds of the second call: it returns the same detections, each as
\* often, again by non-increasing score
NmsAgainKeepsElements ==
    nmsAgainDone =>
        /\ Len(nmsAgain) = Len(nmsOut)
        /\ \A k \in DOMAIN nmsOut : CountIn(nmsAgain, nmsOut[k]) = CountIn(nmsOut, nmsOut[k])
        /\ \A i, j \in DOMAIN nmsAgain :
              (i < j) => nmsAgain[i].score >= nmsAgain[j].score

\* the second call moved a detection in front of one of another class and
\* the same score
NmsAgainReordered ==
    /\ nmsAgainDone
    /\ Len(nmsOut) = 3
    /\ nmsAgain # nmsOut
    /\ nmsAgain[1] = nmsOut[1]
    /\ nmsAgain[2] = nmsOut[3]
    /\ nmsAgain[3] = nmsOut[2]
    /\ nmsOut[2].score = nmsOut[3].score
    /\ nmsOut[2].label # nmsOut[3].label

(***************************************************************************)
(* Properties of the head decoders (checked under SpecDecode).             *)
(***************************************************************************)
\* C9: whichever head decoder was called (generic/oriented, pose,
\* NMS-embedded detect, NMS-embedded pose, segmentation), every detection it
\* emitted has a score strictly greater than the score threshold; a row whose
\* score equals the threshold is rejected.
EmittedScoresExceedThreshold ==
    decHead # "none" => \A k \in DOMAIN decOut : decOut[k].score > decThr

\* what the decoder that was called returns for the same tensor when topk
\* is the number of rows, so that nothing is cut off
Untruncated ==
    CASE decHead = "generic" -> decodeYOLO_or_OBB(HeadOf(decOuts), decThr, SegRows, decIsObb)
      [] decHead = "pose"    -> decodeYOLOPose(HeadOf(decOuts), decThr, SegRows)
      [] decHead = "v26"     -> decodeYOLOv26(HeadOf(decOuts), decThr, SegRows)
      [] decHead = "v26pose" -> decodeYOLOv26Pose(HeadOf(decOuts), decThr, SegRows)
      [] OTHER               -> <<>>

\* C17: every head decoder (decodeYOLO_or_OBB, decodeYOLOPose, decodeYOLOv26,
\* decodeYOLOv26Pose) returns a list of at most topK detections ordered by
\* non-increasing score, and no detection left out by the truncation has a
\* score higher than one that was kept.
DecodersSortAndTruncate ==
    decHead \in {"generic", "pose", "v26", "v26pose"} =>
        /\ Len(decOut) <= decTopk
        /\ \A i, j \in DOMAIN decOut : (i < j) => decOut[i].score >= decOut[j].score
        /\ Len(decOut) = Min(decTopk, Len(Untruncated))
        /\ \A k \in DOMAIN decOut :
              CountIn(decOut, decOut[k]) <= CountIn(Untruncated, decOut[k])
        /\ \A x \in Range(Untruncated) :
              CountIn(decOut, x) < CountIn(Untruncated, x)
                 => \A k \in DOMAIN decOut : x.score <= decOut[k].score

\* the NMS-embedded decoder was given a lower-scored row before a
\* higher-scored one with topk 1 and returned the higher-scored one
TruncationDroppedLowerScore ==
    /\ decHead = "v26"
    /\ decTopk = 1
    /\ Len(Untruncated) = 2
    /\ Len(decOut) = 1
    /\ At(HeadOf(decOuts).data, 4) < At(HeadOf(decOuts).data, 10)
    /\ decOut[1].score = At(HeadOf(decOuts).data, 10)

\* the kind of value the decoder that was called returned: the four head
\* decoders return a list, decodeYOLOSeg a mask record or null
ReturnKind ==
    IF decHead # "seg" THEN "list"
    ELSE IF decMask = <<>> THEN "null" ELSE "mask"

\* the tensors of a rank among the outputs
OfRank(r) == {k \in DOMAIN decOuts : Len(decOuts[k].dims) = r}

\* the shape of the input matches no layout the called decoder knows
ShapeUnknown ==
    LET dims == HeadOf(decOuts).dims
        poseLike(c) == c > 5 /\ (c - 5) % 3 = 0
    IN  CASE decHead = "generic" -> Len(dims) # 3
          [] decHead = "pose" -> Len(dims) # 3 \/ (~poseLike(dims[2]) /\ ~poseLike(dims[3]))
          [] decHead = "v26" -> Len(dims) # 3 \/ dims[3] # 6
          [] decHead = "seg" ->
                \/ OfRank(3) = {}
                \/ OfRank(4) = {}
                \/ \E d \in OfRank(3) : \E p \in OfRank(4) :
                      \/ decOuts[d].dims[2] # 300
                      \/ decOuts[d].dims[3] < 6 + decOuts[p].dims[2]
          [] OTHER -> FALSE

\* C18 as stated: a decoder given a tensor whose shape matches no layout it
\* knows returns an empty detection list: the generic decoder for rank other
\* than 3, the pose decoder when neither trailing dimension c satisfies
\* c > 5 and (c - 5) % 3 = 0, the NMS-embedded decoder when the last
\* dimension is not 6, and the segmentation decoder when the detection or
\* prototype tensor is missing or the row tensor is not [1, 300, >= 6 + C].
UnknownShapeGivesEmptyList ==
    ShapeUnknown => (ReturnKind = "list" /\ decOut = <<>>)

\* C18: a decoder given a tensor whose shape matches no layout it knows
\* returns without decoding a row: the generic, pose and NMS-embedded
\* decoders (in the cases above) return an empty detection list, and the
\* segmentation decoder (in the cases above) returns null, no mask.
UnknownShapeGivesNothing ==
    ShapeUnknown =>
        IF decHead = "seg" THEN ReturnKind = "null" /\ decOut = <<>>
        ELSE ReturnKind = "list" /\ decOut = <<>>

\* the segmentation decoder was given 300 rows that are too narrow for the
\* prototype's channel, with a row above the threshold, and returned null
NarrowSegRowsRejected ==
    /\ decHead = "seg"
    /\ Len(decOuts) = 2
    /\ decOuts[1].dims = <<1, 300, 6>>
    /\ decOuts[1].data[5] > decThr
    /\ decMask = <<>>

\* the opacity (in thousandths) instance d has at mask pixel i
AlphaAt(d, i) ==
    Sigmoid(MaskSum(d.coeffs, decOuts[LastOfRank(decOuts, 4)].data,
                    decOuts[LastOfRank(decOuts, 4)].dims[3] * decOuts[LastOfRank(decOuts, 4)].dims[4],
                    i, 0))

\* the instances whose mask rectangle holds mask pixel i, as indices of decOut
Covering(i) ==
    LET MH == decOuts[LastOfRank(decOuts, 4)].dims[3]
        MW == decOuts[LastOfRank(decOuts, 4)].dims[4]
    IN  { k \in DOMAIN decOut : InMaskRect(decOut[k].box, i % MW, i \div MW, MW, MH) }

\* C27: in segmentation compositing a later instance overwrites a pixel an
\* earlier instance wrote only if its opacity exceeds the opacity stored
\* for that pixel: where all the instances that cover a pixel have the
\* same opacity, the pixel keeps the class of the first of them.
EqualOpacityKeepsFirstWriter ==
    (decHead = "seg" /\ decMask # <<>>) =>
        \A i \in 0..(Len(decMask[1].data) - 1) :
            (/\ Covering(i) # {}
             /\ \A k, m \in Covering(i) : AlphaAt(decOut[k], i) = AlphaAt(decOut[m], i))
            => \E k \in Covering(i) :
                  /\ \A m \in Covering(i) : k <= m
                  /\ decMask[1].data[i + 1] \div 100000 = decOut[k].label + 1

\* two instances of different classes cover the first mask pixel with the
\* same opacity, and the pixel carries the class of the second
EqualOpacityOverwritten ==
    /\ decHead = "seg"
    /\ decMask # <<>>
    /\ Len(decOut) = 2
    /\ Covering(0) = {1, 2}
    /\ decOut[1].label # decOut[2].label
    /\ AlphaAt(decOut[1], 0) = AlphaAt(decOut[2], 0)
    /\ decMask[1].data[1] = (decOut[2].label + 1) * 100000 + AlphaAt(decOut[2], 0) * 99

\* the rectangle [x1, y1, x2, y2] as <<x, y, w, h>>
CornerBox(b) == <<b[1], b[2], b[3] - b[1], b[4] - b[2]>>

\* C28: after the suppression step of the segmentation decoder, no two
\* surviving instances of the same class have boxes whose IoU exceeds 0.45,
\* the boxes being the corner+corner rectangles the rows describe.
SegSurvivorsDoNotOverlap ==
    decHead = "seg" =>
        \A k, m \in DOMAIN decOut :
            (k # m /\ decOut[k].label = decOut[m].label)
            => ~AboveThr(iou(CornerBox(decOut[k].box), CornerBox(decOut[m].box)),
                         SegIouThr[1], SegIouThr[2])

\* two instances of class 1 survived together although one rectangle is
\* half of the other (IoU 1/2); read as x, y, w, h their IoU is 1/3
OverlappingSegSurvivors ==
    /\ decHead = "seg"
    /\ Len(decOut) = 2
    /\ decOut[1].label = decOut[2].label
    /\ {decOut[1].box, decOut[2].box} = {<<0, 0, 100, 100>>, <<50, 0, 100, 100>>}
    /\ iou(CornerBox(decOut[1].box), CornerBox(decOut[2].box)) = <<5000, 10000>>
    /\ iou(decOut[1].box, decOut[2].box) = <<5000, 15000>>
    /\ decMask # <<>>

(***************************************************************************)
(* Properties of the coordinate normalizer (checked under SpecMath).       *)
(***************************************************************************)
\* a * b
FMul(a, b) == Round(a.m * b.m, 2^(a.k + b.k))

\* the pixel box mapped back from n for a frame H high:
\* x = tx * H, w = width * H, h = height * H, y = H - (ty * H + h)
MapBack(n, H) ==
    LET h == FMul(n[4], Num(H))
    IN  <<FMul(n[1], Num(H)), FSub(Num(H), FAdd(FMul(n[2], Num(H)), h)),
          FMul(n[3], Num(H)), h>>

HeaderParsedAsSpecified ==
    hdrDone =>
        IF Len(hdrBuf) < 16 \/ hdrBuf[1] # 10 \/ hdrBuf[2] # 1 \/ hdrBuf[3] # 1
        THEN hdrOut.null
        ELSE /\ ~hdrOut.null
             /\ hdrOut.H = hdrBuf[5] + 256 * hdrBuf[6]
             /\ hdrOut.W = hdrBuf[7] + 256 * hdrBuf[8]
             /\ hdrOut.seq = hdrBuf[9] + 256 * (hdrBuf[10] + 256 * (hdrBuf[11] + 256 * hdrBuf[12]))
             /\ hdrOut.td = hdrBuf[13] + 256 * (hdrBuf[14] + 256 * (hdrBuf[15] + 256 * hdrBuf[16]))

\* a header with unequal bytes in every multi-byte field was accepted
HeaderAccepted ==
    /\ hdrDone
    /\ ~hdrOut.null
    /\ Len(hdrBuf) > 16
    /\ hdrOut.H = 640
    /\ hdrOut.W = 32770
    /\ hdrOut.seq = 16909060

====
